---- MODULE Spec2Model ----
(***************************************************************************)
(* Model of backend/app/modules/dockling_wrapper.py: the noise classifiers *)
(* (_is_author_line, _is_unwanted_content), the section extractor          *)
(* (extract_paper_content, extract_from_docling_document), the text        *)
(* normalizer (combine_to_paragraph), the fallback extractors              *)
(* (extract_enhanced_paper_content, extract_full_page_text) and the        *)
(* endpoint cascade (extract_pdf_text).                                    *)
(*                                                                         *)
(* A Python str is a sequence of characters; a character is a one-letter   *)
(* TLA+ string, and a non-ASCII character is written as a name in angle    *)
(* brackets ("<oe>" is U+0153).                                            *)
(***************************************************************************)
EXTENDS Integers, Sequences, FiniteSets, TLC

VARIABLES
    pc,                 \* position of the request / of the call under test
    data,               \* json_data: the converted document (schema tag, texts)
    texts_read,         \* whether a callee has fetched data["texts"]
    result,             \* the dict returned by extract_from_docling_document
    primary_text,       \* combine_to_paragraph(result), before any fallback
    combined_text,      \* the local combined_text of extract_pdf_text
    calls,              \* the fallback extractors invoked so far, in order
    extracted_content,  \* fragment list of extract_enhanced_paper_content
    content,            \* the argument of the classifiers
    is_author,          \* value returned by _is_author_line(content)
    is_unwanted,        \* value returned by _is_unwanted_content(content)
    frames              \* the local variables of the calls in progress

vars == <<pc, data, texts_read, result, primary_text, combined_text, calls,
          extracted_content, content, is_author, is_unwanted, frames>>

(***************************************************************************)
(* Characters and the str methods the module uses                          *)
(***************************************************************************)
LowerAZ == {"a", "b", "c", "d", "e", "f", "g", "h", "i", "j", "k", "l", "m",
            "n", "o", "p", "q", "r", "s", "t", "u", "v", "w", "x", "y", "z"}

UpperAZ == {"A", "B", "C", "D", "E", "F", "G", "H", "I", "J", "K", "L", "M",
            "N", "O", "P", "Q", "R", "S", "T", "U", "V", "W", "X", "Y", "Z"}

Digits == {"0", "1", "2", "3", "4", "5", "6", "7", "8", "9"}

\* the characters of the class [ŒœŸÿ] (line 699)
Ligatures == {"<OE>", "<oe>", "<Ydia>", "<ydia>"}

\* \s and str.isspace()
WhitespaceChars == {" ", "\n", "\t", "\r"}

\* [.,;:?!] (line 692)
PunctChars == {".", ",", ";", ":", "?", "!"}

\* str.islower() / str.isupper(): the cased characters of the model
CasedLower == LowerAZ \cup {"<oe>", "<ydia>", "<agrave>", "<supa>"}

CasedUpper == UpperAZ \cup {"<OE>", "<Ydia>", "<Agrave>"}

\* \w of a str pattern: Unicode letters and numbers, and the underscore
WordChars ==
    LowerAZ \cup UpperAZ \cup Digits \cup Ligatures
        \cup {"_", "<agrave>", "<Agrave>", "<sup1>", "<sup2>", "<supa>"}

LowerMap ==
    "A" :> "a" @@ "B" :> "b" @@ "C" :> "c" @@ "D" :> "d" @@ "E" :> "e" @@
    "F" :> "f" @@ "G" :> "g" @@ "H" :> "h" @@ "I" :> "i" @@ "J" :> "j" @@
    "K" :> "k" @@ "L" :> "l" @@ "M" :> "m" @@ "N" :> "n" @@ "O" :> "o" @@
    "P" :> "p" @@ "Q" :> "q" @@ "R" :> "r" @@ "S" :> "s" @@ "T" :> "t" @@
    "U" :> "u" @@ "V" :> "v" @@ "W" :> "w" @@ "X" :> "x" @@ "Y" :> "y" @@
    "Z" :> "z" @@ "<OE>" :> "<oe>" @@ "<Ydia>" :> "<ydia>" @@ "<Agrave>" :> "<agrave>"

UpperMap ==
    "a" :> "A" @@ "b" :> "B" @@ "c" :> "C" @@ "d" :> "D" @@ "e" :> "E" @@
    "f" :> "F" @@ "g" :> "G" @@ "h" :> "H" @@ "i" :> "I" @@ "j" :> "J" @@
    "k" :> "K" @@ "l" :> "L" @@ "m" :> "M" @@ "n" :> "N" @@ "o" :> "O" @@
    "p" :> "P" @@ "q" :> "Q" @@ "r" :> "R" @@ "s" :> "S" @@ "t" :> "T" @@
    "u" :> "U" @@ "v" :> "V" @@ "w" :> "W" @@ "x" :> "X" @@ "y" :> "Y" @@
    "z" :> "Z" @@ "<oe>" :> "<OE>" @@ "<ydia>" :> "<Ydia>" @@ "<agrave>" :> "<Agrave>"

IsSpace(c) == c \in WhitespaceChars

\* str.lower()
Lower(s) == [i \in 1..Len(s) |-> IF s[i] \in DOMAIN LowerMap THEN LowerMap[s[i]] ELSE s[i]]

\* str.upper()
Upper(s) == [i \in 1..Len(s) |-> IF s[i] \in DOMAIN UpperMap THEN UpperMap[s[i]] ELSE s[i]]

\* str.strip()
Strip(s) ==
    LET keep == {i \in 1..Len(s) : ~IsSpace(s[i])}
    IN  IF keep = {} THEN <<>>
        ELSE SubSeq(s, CHOOSE i \in keep : \A j \in keep : i <= j,
                       CHOOSE i \in keep : \A j \in keep : j <= i)

\* sub in s
Contains(s, sub) ==
    \E i \in 0..(Len(s) - Len(sub)) : \A j \in 1..Len(sub) : s[i + j] = sub[j]

\* any(k in s for k in keywords)
ContainsAny(s, keywords) == \E k \in keywords : Contains(s, k)

\* s[i], or a character of no class when i is outside the string
CharAt(s, i) == IF i >= 1 /\ i <= Len(s) THEN s[i] ELSE "<none>"

\* the index after the maximal run of characters of cls that starts at i
RECURSIVE SpanEnd(_, _, _)
SpanEnd(s, i, cls) ==
    IF i >= 1 /\ i <= Len(s) /\ s[i] \in cls THEN SpanEnd(s, i + 1, cls) ELSE i

\* the index after the run of whitespace that starts at i (i itself when
\* s[i] is not whitespace): where a greedy \s* or \s+ stops
RunEnd(s, i) == SpanEnd(s, i, WhitespaceChars)

\* the first index of the run of whitespace that ends at i (i + 1 when s[i]
\* is not whitespace)
RECURSIVE RunStart(_, _)
RunStart(s, i) ==
    IF i >= 1 /\ i <= Len(s) /\ IsSpace(s[i]) THEN RunStart(s, i - 1) ELSE i + 1

\* the concatenation of pieces[lo..hi], halving the range
RECURSIVE FlattenRange(_, _, _)
FlattenRange(pieces, lo, hi) ==
    IF lo > hi THEN <<>>
    ELSE IF lo = hi THEN pieces[lo]
    ELSE LET mid == (lo + hi) \div 2
         IN  FlattenRange(pieces, lo, mid) \o FlattenRange(pieces, mid + 1, hi)

\* "".join(pieces)
Flatten(pieces) == FlattenRange(pieces, 1, Len(pieces))

\* the k-th smallest element of a set of numbers
Nth(S, k) == CHOOSE i \in S : Cardinality({j \in S : j < i}) = k - 1

\* str.split(): the maximal runs of non-whitespace characters
Split(s) ==
    LET starts == {i \in 1..Len(s) : ~IsSpace(s[i]) /\ (i = 1 \/ IsSpace(s[i - 1]))}
        ends   == {i \in 1..Len(s) : ~IsSpace(s[i]) /\ (i = Len(s) \/ IsSpace(s[i + 1]))}
    IN  [k \in 1..Cardinality(starts) |-> SubSeq(s, Nth(starts, k), Nth(ends, k))]

\* len(s.split())
WordCount(s) ==
    Cardinality({i \in 1..Len(s) : ~IsSpace(s[i]) /\ (i = 1 \/ IsSpace(s[i - 1]))})

\* sep.join(parts)
JoinWith(parts, sep) ==
    Flatten([i \in 1..Len(parts) |-> IF i = 1 THEN parts[1] ELSE sep \o parts[i]])

\* " ".join(parts)
Join(parts) == JoinWith(parts, <<" ">>)

(***************************************************************************)
(* Keyword lists of the module                                             *)
(***************************************************************************)
\* lines 78-164: problematic_patterns of _is_author_line
problematic_patterns == {
    <<"c", "o", "r", "r", "e", "s", "p", "o", "n", "d", "i", "n", "g", " ", "a", "u", "t", "h", "o", "r">>,
    <<"e", "q", "u", "a", "l", " ", "c", "o", "n", "t", "r", "i", "b", "u", "t", "i", "o", "n">>,
    <<"p", "r", "e", "s", "e", "n", "t", " ", "a", "d", "d", "r", "e", "s", "s">>,
    <<"c", "u", "r", "r", "e", "n", "t", " ", "a", "d", "d", "r", "e", "s", "s">>,
    <<"o", "r", "c", "i", "d", ":">>,
    <<"e", "m", "a", "i", "l", ":">>,
    <<"e", "-", "m", "a", "i", "l", ":">>,
    <<"t", "e", "l", ":">>,
    <<"f", "a", "x", ":">>,
    <<"p", "h", "o", "n", "e", ":">>,
    <<"d", "i", "p", "a", "r", "t", "i", "m", "e", "n", "t", "o">>,
    <<"u", "n", "i", "v", "e", "r", "s", "i", "t", "a">>,
    <<"u", "n", "i", "v", "e", "r", "s", "i", "t", "<agrave>">>,
    <<"u", "n", "i", "v", "e", "r", "s", "i", "t", "y">>,
    <<"i", "n", "s", "t", "i", "t", "u", "t", "e">>,
    <<"i", "n", "s", "t", "i", "t", "u", "t">>,
    <<"d", "e", "p", "a", "r", "t", "m", "e", "n", "t">>,
    <<"c", "o", "l", "l", "e", "g", "e">>,
    <<"s", "c", "h", "o", "o", "l", " ", "o", "f">>,
    <<"f", "a", "c", "u", "l", "t", "y", " ", "o", "f">>,
    <<"l", "a", "b", "o", "r", "a", "t", "o", "r", "y">>,
    <<"l", "a", "b", " ">>,
    <<"c", "e", "n", "t", "e", "r", " ", "f", "o", "r">>,
    <<"c", "e", "n", "t", "r", "e", " ", "f", "o", "r">>,
    <<"h", "o", "s", "p", "i", "t", "a", "l">>,
    <<"m", "e", "d", "i", "c", "a", "l", " ", "c", "e", "n", "t", "e", "r">>,
    <<"r", "e", "s", "e", "a", "r", "c", "h", " ", "c", "e", "n", "t", "e", "r">>,
    <<"v", "i", "a", " ">>,
    <<"a", "v", "e", "n", "u", "e">>,
    <<"s", "t", "r", "e", "e", "t">>,
    <<"r", "o", "a", "d">>,
    <<"b", "l", "v", "d">>,
    <<"b", "o", "u", "l", "e", "v", "a", "r", "d">>,
    <<"i", "t", "a", "l", "y">>,
    <<"g", "e", "n", "o", "v", "a">>,
    <<"s", "a", "l", "e", "r", "n", "o">>,
    <<"b", "a", "m", "a", "k", "o">>,
    <<"m", "a", "l", "i">>,
    <<"r", "e", "c", "e", "i", "v", "e", "d">>,
    <<"a", "c", "c", "e", "p", "t", "e", "d">>,
    <<"p", "u", "b", "l", "i", "s", "h", "e", "d">>,
    <<"c", "o", "r", "r", "e", "s", "p", "o", "n", "d", "e", "n", "c", "e", ":">>,
    <<"f", "u", "n", "d", "i", "n", "g", ":">>,
    <<"d", "o", "i", ":">>,
    <<"c", "o", "p", "y", "r", "i", "g", "h", "t">>,
    <<"j", "o", "u", "r", "n", "a", "l", " ", "o", "f">>,
    <<"v", "o", "l", "u", "m", "e">>,
    <<"i", "s", "s", "u", "e">>,
    <<"p", "a", "g", "e">>,
    <<"t", "a", "b", "l", "e", " ">>,
    <<"f", "i", "g", "u", "r", "e", " ">>,
    <<"f", "i", "g", " ">>,
    <<"c", "h", "a", "r", "t", " ">>,
    <<"s", "c", "h", "e", "m", "e", " ">>,
    <<"p", "l", "a", "t", "e", " ">>,
    <<"a", "n", "t", "i", "-", "i", "n", "f", "l", "a", "m", "m", "a", "t", "o", "r", "y", " ", "a", "c", "t", "i", "v", "i", "t", "y">>,
    <<"c", "a", "r", "r", "a", "g", "e", "e", "n", "a", "n", "-", "i", "n", "d", "u", "c", "e", "d">>,
    <<"c", "o", "m", "p", "o", "u", "n", "d", "s", " ", "1">>,
    <<"c", "o", "m", "p", "o", "u", "n", "d", "s", " ">>,
    <<"c", "o", "m", "p", "o", "u", "n", "d", " ">>,
    <<"s", "t", "r", "u", "c", "t", "u", "r", "e", "s", " ", "o", "f">>,
    <<"c", "h", "e", "m", "i", "c", "a", "l">>,
    <<"s", "y", "n", "t", "h", "e", "s", "i", "s">>,
    <<"a", "n", "a", "l", "y", "s", "i", "s">>,
    <<"c", "h", "a", "r", "a", "c", "t", "e", "r", "i", "z", "a", "t", "i", "o", "n">>,
    <<"<dagger>">>,
    <<"<ddagger>">>,
    <<"<sect>">>,
    <<"<para>">>,
    <<"*">>,
    <<"*", "*">>,
    <<"*", "*", "*">>,
    <<".", "i", "t">>,
    <<".", "e", "d", "u">>,
    <<".", "o", "r", "g">>,
    <<".", "a", "c", ".">>,
    <<".", "u", "n", "i", "v">>}

\* lines 239-254: journal_patterns of _is_unwanted_content
journal_patterns == {
    <<"r", "e", "c", "e", "i", "v", "e", "d">>,
    <<"a", "c", "c", "e", "p", "t", "e", "d">>,
    <<"p", "u", "b", "l", "i", "s", "h", "e", "d", " ", "o", "n", "l", "i", "n", "e">>,
    <<"p", "u", "b", "l", "i", "c", "a", "t", "i", "o", "n", " ", "d", "a", "t", "e">>,
    <<"d", "o", "i", ":">>,
    <<"i", "s", "s", "n">>,
    <<"c", "o", "p", "y", "r", "i", "g", "h", "t">>,
    <<"j", "o", "u", "r", "n", "a", "l", " ", "o", "f">>,
    <<"v", "o", "l", ".">>,
    <<"v", "o", "l", "u", "m", "e">>,
    <<"i", "s", "s", "u", "e">>,
    <<"p", "a", "g", "e", "s">>,
    <<"p", "p", ".">>,
    <<"m", "a", "n", "u", "s", "c", "r", "i", "p", "t">>}

\* lines 376-382: section names a fallback title may not contain
TitleStopWords == {
    <<"A", "B", "S", "T", "R", "A", "C", "T">>,
    <<"I", "N", "T", "R", "O", "D", "U", "C", "T", "I", "O", "N">>,
    <<"E", "X", "P", "E", "R", "I", "M", "E", "N", "T", "A", "L">>,
    <<"M", "E", "T", "H", "O", "D", "S">>,
    <<"R", "E", "S", "U", "L", "T", "S">>}

\* lines 418-418: section headers that end abstract collection
AbstractStopSections == {
    <<"I", "N", "T", "R", "O", "D", "U", "C", "T", "I", "O", "N">>,
    <<"E", "X", "P", "E", "R", "I", "M", "E", "N", "T", "A", "L">>,
    <<"M", "E", "T", "H", "O", "D", "S">>,
    <<"R", "E", "S", "U", "L", "T", "S">>}

\* lines 426-432: the metadata markers of extract_paper_content
MetadataIndicators == {
    <<"c", "o", "r", "r", "e", "s", "p", "o", "n", "d", "e", "n", "c", "e", ":">>,
    <<"r", "e", "c", "e", "i", "v", "e", "d", ":">>,
    <<"f", "u", "n", "d", "i", "n", "g", ":">>,
    <<"d", "o", "i", ":">>,
    <<"c", "o", "p", "y", "r", "i", "g", "h", "t">>}

\* lines 463-463: section headers that start main-text collection
MainStartSections == {
    <<"M", "E", "T", "H", "O", "D", "O", "L", "O", "G", "Y">>,
    <<"M", "A", "T", "E", "R", "I", "A", "L", "S">>,
    <<"E", "X", "P", "E", "R", "I", "M", "E", "N", "T", "A", "L">>}

\* lines 473-478: section headers that end main-text collection
MainStopSections == {
    <<"R", "E", "S", "U", "L", "T", "S">>,
    <<"R", "E", "F", "E", "R", "E", "N", "C", "E", "S">>,
    <<"B", "I", "B", "L", "I", "O", "G", "R", "A", "P", "H", "Y">>,
    <<"A", "C", "K", "N", "O", "W", "L", "E", "D", "G", "M", "E", "N", "T">>}

\* lines 617-623: markers of the abstract backfill
StructuredAbstractMarkers == {
    <<"i", "n", "t", "r", "o", "d", "u", "c", "t", "i", "o", "n", ":">>,
    <<"o", "b", "j", "e", "c", "t", "i", "v", "e", ":">>,
    <<"m", "e", "t", "h", "o", "d", "o", "l", "o", "g", "y", ":">>,
    <<"r", "e", "s", "u", "l", "t", "s", ":">>,
    <<"c", "o", "n", "c", "l", "u", "s", "i", "o", "n", ":">>}

\* lines 861-872: structured-abstract markers of the enhanced extractor
EnhancedAbstractMarkers == {
    <<"I", "n", "t", "r", "o", "d", "u", "c", "t", "i", "o", "n", ":">>,
    <<"O", "b", "j", "e", "c", "t", "i", "v", "e", ":">>,
    <<"M", "e", "t", "h", "o", "d", "o", "l", "o", "g", "y", ":">>,
    <<"R", "e", "s", "u", "l", "t", "s", ":">>,
    <<"C", "o", "n", "c", "l", "u", "s", "i", "o", "n", ":">>,
    <<"B", "a", "c", "k", "g", "r", "o", "u", "n", "d", ":">>,
    <<"M", "e", "t", "h", "o", "d", "s", ":">>,
    <<"P", "u", "r", "p", "o", "s", "e", ":">>,
    <<"A", "i", "m", ":">>,
    <<"S", "u", "m", "m", "a", "r", "y", ":">>}

\* lines 889-896: section headers that start main capture
EnhancedMainSections == {
    <<"M", "E", "T", "H", "O", "D", "S">>,
    <<"M", "E", "T", "H", "O", "D", "O", "L", "O", "G", "Y">>,
    <<"M", "A", "T", "E", "R", "I", "A", "L", "S">>,
    <<"E", "X", "P", "E", "R", "I", "M", "E", "N", "T", "A", "L">>,
    <<"D", "I", "S", "C", "U", "S", "S", "I", "O", "N">>,
    <<"A", "N", "A", "L", "Y", "S", "I", "S">>}

\* lines 906-911: section headers that end main capture
EnhancedStopSections == {
    <<"R", "E", "S", "U", "L", "T", "S">>,
    <<"R", "E", "F", "E", "R", "E", "N", "C", "E", "S">>,
    <<"B", "I", "B", "L", "I", "O", "G", "R", "A", "P", "H", "Y">>,
    <<"A", "C", "K", "N", "O", "W", "L", "E", "D", "G", "M", "E", "N", "T">>}

\* lines 921-944: inline metadata keywords of the capture filters
EnhancedIndicators == {
    <<"c", "o", "r", "r", "e", "s", "p", "o", "n", "d", "e", "n", "c", "e", ":">>,
    <<"r", "e", "c", "e", "i", "v", "e", "d", ":">>,
    <<"f", "u", "n", "d", "i", "n", "g", ":">>,
    <<"d", "o", "i", ":">>,
    <<"c", "o", "p", "y", "r", "i", "g", "h", "t">>,
    <<"@">>,
    <<"u", "n", "i", "v", "e", "r", "s", "i", "t", "y">>,
    <<"i", "n", "s", "t", "i", "t", "u", "t", "e">>,
    <<"d", "e", "p", "a", "r", "t", "m", "e", "n", "t">>,
    <<"c", "o", "l", "l", "e", "g", "e">>,
    <<"s", "c", "h", "o", "o", "l", " ", "o", "f">>,
    <<"f", "a", "c", "u", "l", "t", "y", " ", "o", "f">>,
    <<"l", "a", "b", "o", "r", "a", "t", "o", "r", "y">>,
    <<"l", "a", "b", " ">>,
    <<"c", "e", "n", "t", "e", "r", " ", "f", "o", "r">>,
    <<"c", "e", "n", "t", "r", "e", " ", "f", "o", "r">>,
    <<"h", "o", "s", "p", "i", "t", "a", "l">>,
    <<"m", "e", "d", "i", "c", "a", "l", " ", "c", "e", "n", "t", "e", "r">>,
    <<"r", "e", "s", "e", "a", "r", "c", "h", " ", "c", "e", "n", "t", "e", "r">>,
    <<"o", "r", "c", "i", "d">>,
    <<"a", "u", "t", "h", "o", "r">>,
    <<"a", "f", "f", "i", "l", "i", "a", "t", "i", "o", "n">>}

\* lines 1077-1103: inline metadata keywords of the rebuild filter
RebuildIndicators == {
    <<"c", "o", "r", "r", "e", "s", "p", "o", "n", "d", "e", "n", "c", "e", ":">>,
    <<"r", "e", "c", "e", "i", "v", "e", "d", ":">>,
    <<"f", "u", "n", "d", "i", "n", "g", ":">>,
    <<"d", "o", "i", ":">>,
    <<"c", "o", "p", "y", "r", "i", "g", "h", "t">>,
    <<"j", "o", "u", "r", "n", "a", "l", " ", "o", "f">>,
    <<"v", "o", "l", "u", "m", "e">>,
    <<"i", "s", "s", "u", "e">>,
    <<"@">>,
    <<"u", "n", "i", "v", "e", "r", "s", "i", "t", "y">>,
    <<"i", "n", "s", "t", "i", "t", "u", "t", "e">>,
    <<"d", "e", "p", "a", "r", "t", "m", "e", "n", "t">>,
    <<"c", "o", "l", "l", "e", "g", "e">>,
    <<"s", "c", "h", "o", "o", "l", " ", "o", "f">>,
    <<"f", "a", "c", "u", "l", "t", "y", " ", "o", "f">>,
    <<"l", "a", "b", "o", "r", "a", "t", "o", "r", "y">>,
    <<"l", "a", "b", " ">>,
    <<"c", "e", "n", "t", "e", "r", " ", "f", "o", "r">>,
    <<"c", "e", "n", "t", "r", "e", " ", "f", "o", "r">>,
    <<"h", "o", "s", "p", "i", "t", "a", "l">>,
    <<"m", "e", "d", "i", "c", "a", "l", " ", "c", "e", "n", "t", "e", "r">>,
    <<"r", "e", "s", "e", "a", "r", "c", "h", " ", "c", "e", "n", "t", "e", "r">>,
    <<"o", "r", "c", "i", "d">>,
    <<"a", "u", "t", "h", "o", "r">>,
    <<"a", "f", "f", "i", "l", "i", "a", "t", "i", "o", "n">>}

\* lines 1115-1121: journal-name fragments of the rebuild filter
JournalFragments == {
    <<"p", "h", "y", "t", "o", "c", "h", "e", "m", "i", "c", "a", "l", " ", "a", "n", "a", "l", "y", "s", "i", "s">>,
    <<"j", "o", "h", "n", " ", "w", "i", "l", "e", "y">>,
    <<"d", "o", "i", ".", "o", "r", "g">>,
    <<"e", "l", "s", "e", "v", "i", "e", "r">>,
    <<"s", "p", "r", "i", "n", "g", "e", "r">>}

(***************************************************************************)
(* Pattern helpers: each regular expression of the module is matched by    *)
(* the positions its pieces can take.  A greedy run (\s*, \s+, \d+,        *)
(* [a-z]+) followed by a piece that cannot start with a character of the   *)
(* run matches only the maximal run.                                       *)
(***************************************************************************)
\* the literal lit stands at position i of s
At(s, i, lit) ==
    /\ i >= 1
    /\ i + Len(lit) - 1 <= Len(s)
    /\ \A j \in 1..Len(lit) : s[i + j - 1] = lit[j]

\* \b between positions i-1 and i
Boundary(s, i) == (CharAt(s, i - 1) \in WordChars) # (CharAt(s, i) \in WordChars)

\* [A-Z][a-z]+ at i: the index after it, 0 when there is no match
NameEnd(s, i) ==
    IF CharAt(s, i) \in UpperAZ /\ SpanEnd(s, i + 1, LowerAZ) > i + 1
    THEN SpanEnd(s, i + 1, LowerAZ) ELSE 0

\* [A-Z][a-z]+ [A-Z][a-z]+ at i: the index after it, 0 when there is no match
NamePairEnd(s, i) ==
    LET m == NameEnd(s, i)
    IN  IF m # 0 /\ CharAt(s, m) = " " THEN NameEnd(s, m + 1) ELSE 0

(***************************************************************************)
(* _is_author_line (lines 23-188)                                          *)
(***************************************************************************)
\* the class [¹²³...ᵃᵇᶜ...\*†‡§¶] of line 45; the superscripts are
\* represented by <sup1>, <sup2> and <supa>
MarkerChars ==
    {"<sup1>", "<sup2>", "<supa>", "*", "<dagger>", "<ddagger>", "<sect>", "<para>"}

\* line 49: (PhD|Ph\.D\.|MD|Dr\.|Prof\.|Professor)
AcademicTitles == {
    <<"P", "h", "D">>,
    <<"P", "h", ".", "D", ".">>,
    <<"M", "D">>,
    <<"D", "r", ".">>,
    <<"P", "r", "o", "f", ".">>,
    <<"P", "r", "o", "f", "e", "s", "s", "o", "r">>}

\* line 43: ^[A-Z][a-z]+ [A-Z][a-z]+(?:,\s*[A-Z][a-z]+ [A-Z][a-z]+)+
NameListPattern(s) ==
    LET e == NamePairEnd(s, 1)
    IN  /\ e # 0
        /\ CharAt(s, e) = ","
        /\ NamePairEnd(s, RunEnd(s, e + 1)) # 0

\* line 45: [A-Z][a-z]+ [A-Z][a-z]+[markers]+
SuperscriptPattern(s) ==
    \E i \in 1..Len(s) :
        LET e == NamePairEnd(s, i) IN e # 0 /\ CharAt(s, e) \in MarkerChars

\* line 47: ^\d+\s*[A-Z][a-z]+ [A-Z][a-z]+
NumberedAffiliationPattern(s) ==
    LET d == SpanEnd(s, 1, Digits)
    IN  d > 1 /\ NamePairEnd(s, RunEnd(s, d)) # 0

\* line 49: [A-Z][a-z]+\s+[A-Z][a-z]+,?\s*(PhD|Ph\.D\.|MD|Dr\.|Prof\.|Professor)
AcademicTitlePattern(s) ==
    \E i \in 1..Len(s) :
        LET m == NameEnd(s, i)
            k == RunEnd(s, m)
            e == NameEnd(s, k)
            a == IF CharAt(s, e) = "," THEN e + 1 ELSE e
            t == RunEnd(s, a)
        IN  /\ m # 0
            /\ k > m
            /\ e # 0
            /\ \E title \in AcademicTitles : At(s, t, title)

\* lines 53-55
MatchesAuthorPattern(s) ==
    \/ NameListPattern(s)
    \/ SuperscriptPattern(s)
    \/ NumberedAffiliationPattern(s)
    \/ AcademicTitlePattern(s)

\* str.islower(): a cased character, and no upper-case one
IsLowerStr(s) ==
    /\ \E i \in 1..Len(s) : s[i] \in CasedLower \cup CasedUpper
    /\ \A i \in 1..Len(s) : s[i] \notin CasedUpper

\* lines 64-70: re.sub(r"[^\w]", "", word) looks like a proper name
IsNameWord(word) ==
    LET clean_word == SelectSeq(word, LAMBDA c : c \in WordChars)
    IN  /\ Len(clean_word) > 1
        /\ clean_word[1] \in CasedUpper
        /\ IsLowerStr(Tail(clean_word))
        /\ Len(clean_word) > 2

\* lines 58-75
HasManyNames(s) ==
    LET words == Split(s)
    IN  /\ Len(words) >= 2
        /\ Len(s) < 300
        /\ Cardinality({i \in 1..Len(words) : IsNameWord(words[i])}) >= 3
        /\ Len(s) < 200

\* line 172: the characters counted as symbols
SymbolChars ==
    {"<dagger>", "<ddagger>", "<sect>", "<para>", "*", ",", "(", ")", "[", "]", "{", "}"}
        \cup Digits

\* lines 172-173: symbol_count > len(content) * 0.3
MostlySymbols(s) ==
    10 * Cardinality({i \in 1..Len(s) : s[i] \in SymbolChars}) > 3 * Len(s)

\* line 177: [†‡§¶\*]{1,3}
HasFootnoteMarker(s) ==
    \E i \in 1..Len(s) : s[i] \in {"<dagger>", "<ddagger>", "<sect>", "<para>", "*"}

\* line 181: \b[A-Za-z0-9._%+-]+@[A-Za-z0-9.-]+\.[A-Z|a-z]{2,}\b
HasEmail(s) ==
    LET local  == LowerAZ \cup UpperAZ \cup Digits \cup {".", "_", "%", "+", "-"}
        domain == LowerAZ \cup UpperAZ \cup Digits \cup {".", "-"}
        tld    == LowerAZ \cup UpperAZ \cup {"|"}
    IN  \E p \in 1..Len(s) :
            /\ s[p] = "@"
            /\ \E i \in 1..(p - 1) :
                   Boundary(s, i) /\ \A k \in i..(p - 1) : s[k] \in local
            /\ \E q \in (p + 2)..Len(s) :
                   /\ s[q] = "."
                   /\ \A k \in (p + 1)..(q - 1) : s[k] \in domain
                   /\ \E e \in (q + 2)..Len(s) :
                          /\ \A k \in (q + 1)..e : s[k] \in tld
                          /\ Boundary(s, e + 1)

\* line 185: \b\d{4,5}\s+[A-Z][a-z]+
HasPostalCode(s) ==
    \E i \in 1..Len(s) : \E n \in {4, 5} :
        /\ Boundary(s, i)
        /\ \A k \in i..(i + n - 1) : CharAt(s, k) \in Digits
        /\ RunEnd(s, i + n) > i + n
        /\ NameEnd(s, RunEnd(s, i + n)) # 0

\* the tests of _is_author_line without the length test of lines 37-38: a
\* variant that ShortContentFloor must tell from _is_author_line
AuthorLineIgnoringLength(c) ==
    \/ MatchesAuthorPattern(c) \/ HasManyNames(c)
    \/ ContainsAny(Lower(c), problematic_patterns) \/ MostlySymbols(c)
    \/ HasFootnoteMarker(c) \/ HasEmail(c) \/ HasPostalCode(c)

_is_author_line(c) ==
    IF Len(Strip(c)) < 3 THEN FALSE
    ELSE \/ MatchesAuthorPattern(c)
         \/ HasManyNames(c)
         \/ ContainsAny(Lower(c), problematic_patterns)
         \/ MostlySymbols(c)
         \/ HasFootnoteMarker(c)
         \/ HasEmail(c)
         \/ HasPostalCode(c)

(***************************************************************************)
(* _is_unwanted_content (lines 191-264)                                    *)
(***************************************************************************)
\* [-–—]
DashChars == {"-", "<endash>", "<emdash>"}

\* lines 208-213: ^word\s+\d+
NumberedCaption(s, word) ==
    LET e == RunEnd(s, Len(word) + 1)
    IN  At(s, 1, word) /\ e > Len(word) + 1 /\ CharAt(s, e) \in Digits

CaptionWords == {
    <<"t", "a", "b", "l", "e">>,
    <<"f", "i", "g", "u", "r", "e">>,
    <<"f", "i", "g">>,
    <<"c", "h", "a", "r", "t">>,
    <<"s", "c", "h", "e", "m", "e">>,
    <<"p", "l", "a", "t", "e">>}

\* lines 214-215: ^\d+\s*[a-z]\s+word
NumberedLetterCaption(s, word) ==
    LET d == SpanEnd(s, 1, Digits)
        k == RunEnd(s, d)
        v == RunEnd(s, k + 1)
    IN  d > 1 /\ CharAt(s, k) \in LowerAZ /\ v > k + 1 /\ At(s, v, word)

\* a.*b.*c: the literals in order, no line break in the gaps
RECURSIVE ChainFrom(_, _, _)
ChainFrom(s, i, lits) ==
    IF lits = <<>> THEN TRUE
    ELSE \E p \in i..Len(s) :
            /\ \A k \in i..(p - 1) : s[k] # "\n"
            /\ At(s, p, lits[1])
            /\ ChainFrom(s, p + Len(lits[1]), Tail(lits))

DotStarChain(s, lits) ==
    \E p \in 1..Len(s) : At(s, p, lits[1]) /\ ChainFrom(s, p + Len(lits[1]), Tail(lits))

\* line 218: mean.*sem.*n\s*[=\(]
MeanSemPattern(s) ==
    \E p \in 1..Len(s) : \E q \in 1..Len(s) : \E r \in 1..Len(s) :
        /\ At(s, p, <<"m", "e", "a", "n">>)
        /\ q >= p + 4
        /\ At(s, q, <<"s", "e", "m">>)
        /\ r >= q + 3
        /\ s[r] = "n"
        /\ \A k \in (p + 4)..(q - 1) : s[k] # "\n"
        /\ \A k \in (q + 3)..(r - 1) : s[k] # "\n"
        /\ CharAt(s, RunEnd(s, r + 1)) \in {"=", "("}

\* line 219: p\s*<\s*0\.
PValuePattern(s) ==
    \E i \in 1..Len(s) :
        LET a == RunEnd(s, i + 1)
        IN  s[i] = "p" /\ CharAt(s, a) = "<" /\ At(s, RunEnd(s, a + 1), <<"0", ".">>)

\* line 221: \bpo\s*,
PoPattern(s) ==
    \E i \in 1..Len(s) :
        Boundary(s, i) /\ At(s, i, <<"p", "o">>) /\ CharAt(s, RunEnd(s, i + 2)) = ","

\* lines 207-228
MatchesTableFigPattern(s) ==
    \/ \E w \in CaptionWords : NumberedCaption(s, w)
    \/ NumberedLetterCaption(s, <<"v", "a", "l", "u", "e", "s">>)
    \/ NumberedLetterCaption(s, <<"a", "s", "s", "i", "g", "n", "m", "e", "n", "t", "s">>)
    \/ DotStarChain(s, << <<"a", "n", "t", "i", "-", "i", "n", "f", "l", "a", "m", "m", "a", "t", "o", "r", "y", " ", "a", "c", "t", "i", "v", "i", "t", "y">>,
                          <<"o", "n">>, <<"e", "d", "e", "m", "a">> >>)
    \/ DotStarChain(s, << <<"c", "a", "r", "r", "a", "g", "e", "e", "n", "a", "n", "-", "i", "n", "d", "u", "c", "e", "d">>,
                          <<"e", "d", "e", "m", "a">> >>)
    \/ MeanSemPattern(s)
    \/ PValuePattern(s)
    \/ DotStarChain(s, << <<"s", "t", "u", "d", "e", "n", "t">>, <<"t", "e", "s", "t">> >>)
    \/ PoPattern(s)
    \/ Contains(s, <<"e", "x", "t", "r", "a", "c", "t", "i", "o", "n", " ", "y", "i", "e", "l", "d">>)
    \/ Contains(s, <<"f", "r", "a", "c", "t", "i", "o", "n", "a", "t", "i", "o", "n", " ", "y", "i", "e", "l", "d">>)

\* line 231: compounds?\s+\d+\s*[-–—]\s*\d+
CompoundRangePattern(s) ==
    \E i \in 1..Len(s) :
        LET a == IF CharAt(s, i + 8) = "s" THEN i + 9 ELSE i + 8
            b == RunEnd(s, a)
            c == SpanEnd(s, b, Digits)
            d == RunEnd(s, c)
        IN  /\ At(s, i, <<"c", "o", "m", "p", "o", "u", "n", "d">>)
            /\ b > a
            /\ c > b
            /\ CharAt(s, d) \in DashChars
            /\ CharAt(s, RunEnd(s, d + 1)) \in Digits

\* line 235: ^\d+\s*[-–—]\s*\d+\s*$
BareRangePattern(s) ==
    LET a == SpanEnd(s, 1, Digits)
        b == RunEnd(s, a)
        c == RunEnd(s, b + 1)
        d == SpanEnd(s, c, Digits)
    IN  /\ a > 1
        /\ CharAt(s, b) \in DashChars
        /\ d > c
        /\ RunEnd(s, d) = Len(s) + 1

\* line 261: any(c.isdigit() for c in content_lower)
HasDigit(s) == \E i \in 1..Len(s) : s[i] \in Digits \cup {"<sup1>", "<sup2>"}

_is_unwanted_content(c) ==
    LET content_lower == Strip(Lower(c))
    IN  IF Len(content_lower) < 3 THEN TRUE
        ELSE \/ MatchesTableFigPattern(content_lower)
             \/ CompoundRangePattern(content_lower)
             \/ BareRangePattern(content_lower)
             \/ ContainsAny(content_lower, journal_patterns)
             \/ (Len(content_lower) < 10 /\ HasDigit(content_lower))

(***************************************************************************)
(* Documents.  A text element is a function from its keys to values, so a  *)
(* key may be missing; text.get(key, default) is Get.                      *)
(***************************************************************************)
Get(d, key, default) == IF key \in DOMAIN d THEN d[key] ELSE default

\* text.get("text", "")
TextOf(text) == Get(text, "text", <<>>)

\* text.get("label")
LabelOf(text) == Get(text, "label", "None")

\* text.get("label") in ["page_header", "page_footer"]
IsHeaderFooter(text) == LabelOf(text) \in {"page_header", "page_footer"}

\* text.get("label") == "section_header"
IsSectionHeader(text) == LabelOf(text) = "section_header"

\* lines 444, 843, 1057, 1185-1187:
\* text.get("prov", [{}])[0].get("page_no", 1) if text.get("prov") else 1
PageNo(text) ==
    LET prov == Get(text, "prov", <<>>)
    IN  IF prov = <<>> THEN 1 ELSE Get(prov[1], "page_no", 1)

\* the subscript of lines 444, 505, 843 and 1058 without the conditional
\* around it: a variant that Totality must tell from PageNoRaises
PageNoRaisesUnguarded(text) == Len(Get(text, "prov", <<<<>>>>)) = 0

\* lines 444, 505, 843, 1058: the subscript [0] raises IndexError when it is
\* evaluated, that is when text.get("prov") is truthy, on a list without
\* an element
PageNoRaises(text) ==
    LET prov == Get(text, "prov", <<>>)
    IN  prov # <<>> /\ Len(prov) = 0

\* lines 1186-1187: the same subscript behind
\* text.get("prov") and len(text.get("prov", [])) > 0
FullPageNoRaises(text) ==
    LET prov == Get(text, "prov", <<>>)
    IN  prov # <<>> /\ Len(prov) > 0 /\ Len(prov) = 0

\* doc_json.get("texts", [])
TextsOf(doc_json) == Get(doc_json, "texts", <<>>)

\* s.replace(old, "") for a literal no two occurrences of which overlap
RemoveAll(s, old) ==
    Flatten([i \in 1..Len(s) |->
        IF \E j \in (i - Len(old) + 1)..i : At(s, j, old) THEN <<>> ELSE <<s[i]>>])

\* s.split(sep) for a separator no two occurrences of which overlap
SplitOn(s, sep) ==
    LET seps == {i \in 1..Len(s) : At(s, i, sep)}
        n    == Cardinality(seps)
    IN  [k \in 1..(n + 1) |->
            SubSeq(s, IF k = 1 THEN 1 ELSE Nth(seps, k - 1) + Len(sep),
                      IF k = n + 1 THEN Len(s) ELSE Nth(seps, k) - 1)]

kwABSTRACT == <<"A", "B", "S", "T", "R", "A", "C", "T">>

kwINTRODUCTION == <<"I", "N", "T", "R", "O", "D", "U", "C", "T", "I", "O", "N">>

kwRESULTS == <<"R", "E", "S", "U", "L", "T", "S">>

(***************************************************************************)
(* extract_paper_content (lines 345-539)                                   *)
(***************************************************************************)
\* lines 364-370: a level-1 section header that may be the title
IsLevelOneTitle(text) ==
    /\ ~Contains(Upper(TextOf(text)), kwRESULTS)
    /\ Len(TextOf(text)) > 5

\* lines 372-385: a section header without level 1 that may be the title
IsLongHeaderTitle(text) ==
    LET c == Strip(TextOf(text))
    IN  Len(c) > 20 /\ ~ContainsAny(Upper(c), TitleStopWords)

\* lines 363-385: one loop, the first element accepted by either branch wins
RECURSIVE FindTitle(_, _)
FindTitle(texts, i) ==
    IF i > Len(texts) THEN <<>>
    ELSE LET text == texts[i]
         IN  IF IsSectionHeader(text) /\ Get(text, "level", 0) = 1
             THEN IF IsLevelOneTitle(text) THEN TextOf(text)
                  ELSE FindTitle(texts, i + 1)
             ELSE IF IsSectionHeader(text) /\ IsLongHeaderTitle(text)
                  THEN Strip(TextOf(text))
             ELSE FindTitle(texts, i + 1)

\* lines 424-432, 487-495, 521-529
HasMetadataIndicator(c) == ContainsAny(Lower(c), MetadataIndicators)

\* lines 392-434: the body of the abstract loop; stopped models break
AbstractStep(st, text) ==
    LET c == Strip(TextOf(text))
    IN  IF c = <<>> THEN st
        ELSE IF IsSectionHeader(text) /\ Upper(c) = kwABSTRACT
             THEN [st EXCEPT !.collecting_abstract = TRUE]
        ELSE IF Contains(Upper(c), kwABSTRACT \o <<":">>)
             THEN [st EXCEPT
                     !.abstract_section = Append(@,
                         Strip(RemoveAll(RemoveAll(c, kwABSTRACT \o <<":">>),
                                         <<"A", "b", "s", "t", "r", "a", "c", "t", ":">>))),
                     !.collecting_abstract = TRUE]
        ELSE IF ~st.collecting_abstract THEN st
        ELSE IF IsSectionHeader(text) /\ ContainsAny(Upper(c), AbstractStopSections)
             THEN [st EXCEPT !.stopped = TRUE]
        ELSE IF ~IsHeaderFooter(text) /\ ~HasMetadataIndicator(c)
             THEN [st EXCEPT !.abstract_section = Append(@, c)]
        ELSE st

RECURSIVE AbstractScan(_, _, _)
AbstractScan(texts, i, st) ==
    IF i > Len(texts) \/ st.stopped THEN st
    ELSE AbstractScan(texts, i + 1, AbstractStep(st, texts[i]))

\* lines 388-436
AbstractSection(texts) ==
    AbstractScan(texts, 1,
        [collecting_abstract |-> FALSE, abstract_section |-> <<>>, stopped |-> FALSE]).abstract_section

\* lines 442-497: the body of the main-text loop
MainStep(st, text) ==
    LET c == Strip(TextOf(text))
    IN  IF c = <<>> \/ IsHeaderFooter(text) THEN st
        ELSE IF IsSectionHeader(text) /\ Contains(Upper(c), kwINTRODUCTION)
             THEN [st EXCEPT !.found_intro = TRUE, !.main_text = Append(@, c)]
        ELSE IF IsSectionHeader(text) /\ ContainsAny(Upper(c), MainStartSections)
             THEN [st EXCEPT !.found_intro = TRUE, !.main_text = Append(@, c)]
        ELSE IF /\ st.found_intro
                /\ IsSectionHeader(text)
                /\ ContainsAny(Upper(c), MainStopSections)
             THEN [st EXCEPT !.stopped = TRUE]
        ELSE IF st.found_intro /\ PageNo(text) <= 6 /\ ~HasMetadataIndicator(c)
             THEN [st EXCEPT !.main_text = Append(@, c)]
        ELSE st

RECURSIVE MainScan(_, _, _)
MainScan(texts, i, st) ==
    IF i > Len(texts) \/ st.stopped THEN st
    ELSE MainScan(texts, i + 1, MainStep(st, texts[i]))

\* lines 439-497
MainTextList(texts) ==
    MainScan(texts, 1, [found_intro |-> FALSE, main_text |-> <<>>, stopped |-> FALSE]).main_text

\* lines 502-534: the lenient pass over the first three pages
LenientAccepts(text) ==
    LET c == Strip(TextOf(text))
    IN  /\ c # <<>>
        /\ ~IsHeaderFooter(text)
        /\ Len(c) >= 5
        /\ PageNo(text) <= 3
        /\ ~HasMetadataIndicator(c)

RECURSIVE LenientPass(_, _)
LenientPass(texts, i) ==
    IF i > Len(texts) THEN <<>>
    ELSE (IF LenientAccepts(texts[i]) THEN <<Strip(TextOf(texts[i]))>> ELSE <<>>)
             \o LenientPass(texts, i + 1)

extract_paper_content(doc_json) ==
    LET texts     == TextsOf(doc_json)
        abstract  == Join(AbstractSection(texts))
        main_text == MainTextList(texts)
    IN  [title     |-> FindTitle(texts, 1),
         abstract  |-> abstract,
         main_text |-> IF abstract = <<>> /\ main_text = <<>>
                       THEN Join(LenientPass(texts, 1))
                       ELSE Join(main_text)]

(***************************************************************************)
(* extract_from_docling_document (lines 542-639)                           *)
(***************************************************************************)
\* lines 579-605: the title backfill
RECURSIVE BackfillTitle(_, _)
BackfillTitle(texts, i) ==
    IF i > Len(texts) THEN <<>>
    ELSE LET text == texts[i]
             c    == Strip(TextOf(text))
         IN  IF /\ IsSectionHeader(text)
                /\ Len(c) > 30
                /\ ~ContainsAny(Upper(c), TitleStopWords)
             THEN c
             ELSE IF /\ LabelOf(text) = "paragraph"
                     /\ Get(text, "page_number", 0) = 1
                     /\ Get(text, "font_size", 0) > 12
                  THEN c
             ELSE BackfillTitle(texts, i + 1)

\* lines 611-632: the abstract backfill; the marker test precedes the break
RECURSIVE BackfillAbstract(_, _)
BackfillAbstract(texts, i) ==
    IF i > Len(texts) THEN <<>>
    ELSE LET text == texts[i]
             c    == Strip(TextOf(text))
         IN  (IF ContainsAny(Lower(c), StructuredAbstractMarkers) THEN <<c>> ELSE <<>>)
                 \o (IF IsSectionHeader(text) /\ Contains(Lower(c), Lower(kwINTRODUCTION))
                     THEN <<>>
                     ELSE BackfillAbstract(texts, i + 1))

\* the test of line 565 without the comparison of the tag: a variant that
\* FormatGate must tell from IsDoclingDocument
HasSchemaName(d) == "schema_name" \in DOMAIN d

\* line 565: "schema_name" in data and data["schema_name"] == "DoclingDocument"
IsDoclingDocument(d) ==
    "schema_name" \in DOMAIN d /\ d["schema_name"] = "DoclingDocument"

\* lines 570-637: the backfills applied to the result r of extract_paper_content
WithBackfill(r, texts) ==
    LET title == IF r.title = <<>> THEN BackfillTitle(texts, 1) ELSE r.title
        found == IF r.abstract = <<>> THEN BackfillAbstract(texts, 1) ELSE <<>>
    IN  IF r.title = <<>> \/ r.abstract = <<>> \/ r.main_text = <<>>
        THEN [title     |-> title,
              abstract  |-> IF found # <<>> THEN Join(found) ELSE r.abstract,
              main_text |-> r.main_text]
        ELSE r

\* lines 566-637: the branch taken by a Docling document
ExtractWithBackfill(d) == WithBackfill(extract_paper_content(d), TextsOf(d))

\* the message of line 639
NotDoclingError ==
    <<"N", "o", "t", " ", "a", " ", "v", "a", "l", "i", "d", " ", "D", "o", "c", "l", "i",
      "n", "g", " ", "d", "o", "c", "u", "m", "e", "n", "t", " ", "f", "o", "r", "m", "a", "t">>

extract_from_docling_document(d) ==
    IF IsDoclingDocument(d) THEN ExtractWithBackfill(d)
    ELSE [error |-> NotDoclingError]

(***************************************************************************)
(* combine_to_paragraph (lines 642-706)                                    *)
(***************************************************************************)
\* line 688: s.replace("\n", " ")
ReplaceNewlines(s) == [i \in 1..Len(s) |-> IF s[i] = "\n" THEN " " ELSE s[i]]

\* lines 690, 704: re.sub(r"\s+", " ", s): a run of whitespace becomes one space
CollapseSpaces(s) ==
    Flatten([i \in 1..Len(s) |->
        IF ~IsSpace(s[i]) THEN <<s[i]>>
        ELSE IF i > 1 /\ IsSpace(s[i - 1]) THEN <<>>
        ELSE <<" ">>])

\* line 692: re.sub(r"\s+([.,;:?!])", r"\1", s): a run of whitespace before a
\* punctuation mark is dropped
FixPunctuation(s) ==
    Flatten([i \in 1..Len(s) |->
        IF IsSpace(s[i]) /\ CharAt(s, RunEnd(s, i)) \in PunctChars THEN <<>>
        ELSE <<s[i]>>])

\* lines 694, 695: re.sub(r"\s*X\s*", repl, s) for a single character X: X
\* becomes repl, and the runs of whitespace on both sides of it are dropped
AroundSymbol(s, sym, repl) ==
    Flatten([i \in 1..Len(s) |->
        IF s[i] = sym THEN repl
        ELSE IF /\ IsSpace(s[i])
                /\ \/ CharAt(s, RunEnd(s, i)) = sym
                   \/ CharAt(s, RunStart(s, i) - 1) = sym
             THEN <<>>
        ELSE <<s[i]>>])

SpacePipes(s) == AroundSymbol(s, "|", <<" ", "|", " ">>)

RemoveTildes(s) == AroundSymbol(s, "~", <<" ">>)

\* line 697: re.sub(r"([a-z])([A-Z])", r"\1 \2", s)
SplitCamel(s) ==
    Flatten([i \in 1..Len(s) |->
        IF s[i] \in LowerAZ /\ CharAt(s, i + 1) \in UpperAZ THEN <<s[i], " ">>
        ELSE <<s[i]>>])

\* line 699: re.sub(r"[ŒœŸÿ]", "", s)
StripLigatures(s) == SelectSeq(s, LAMBDA c : c \notin Ligatures)

\* line 701, (\w)-\s+(\w) at i: the index of the second word character, 0
\* when the pattern does not match there
HyphenEnd(s, i) ==
    LET e == RunEnd(s, i + 2)
    IN  IF /\ CharAt(s, i) \in WordChars
           /\ CharAt(s, i + 1) = "-"
           /\ e > i + 2
           /\ CharAt(s, e) \in WordChars
        THEN e ELSE 0

\* the position whose match of (\w)-\s+(\w) would end at c, 0 when none does
HyphenPrev(s, c) ==
    LET b == RunStart(s, c - 1)
    IN  IF b <= c - 1 /\ HyphenEnd(s, b - 2) = c THEN b - 2 ELSE 0

\* re.sub takes its matches from left to right without overlap: a match
\* consumes its second word character, which then starts no match
RECURSIVE HyphenMatchAt(_, _)
HyphenMatchAt(s, i) ==
    /\ HyphenEnd(s, i) # 0
    /\ LET p == HyphenPrev(s, i) IN p = 0 \/ ~HyphenMatchAt(s, p)

\* line 701: re.sub(r"(\w)-\s+(\w)", r"\1\2", s): the hyphen and the
\* whitespace of every match are dropped
RejoinHyphens(s) ==
    Flatten([i \in 1..Len(s) |->
        IF s[i] = "-" /\ i > 1 /\ HyphenMatchAt(s, i - 1) THEN <<>>
        ELSE IF /\ IsSpace(s[i])
                /\ LET b == RunStart(s, i)
                   IN  b >= 3 /\ s[b - 1] = "-" /\ HyphenMatchAt(s, b - 2)
             THEN <<>>
        ELSE <<s[i]>>])

\* lines 688-704: the clean-up of the joined paragraph
CleanParagraph(s) ==
    Strip(CollapseSpaces(RejoinHyphens(StripLigatures(SplitCamel(
        RemoveTildes(SpacePipes(FixPunctuation(CollapseSpaces(
            ReplaceNewlines(s))))))))))

\* result_dict.get(key, "") on the dict the extractor returned
GetField(d, key) == IF key \in DOMAIN d THEN d[key] ELSE <<>>

\* the components joined in the opposite order (main_text, abstract, title):
\* a variant of JoinComponents that CombineOrder must tell from it
JoinComponentsReversed(d) ==
    LET title     == Strip(GetField(d, "title"))
        abstract  == Strip(GetField(d, "abstract"))
        main_text == Strip(GetField(d, "main_text"))
    IN  Join(SelectSeq(<<main_text, abstract, title>>, LAMBDA p : p # <<>>))

\* lines 667-684: the stripped, non-empty components in order, space-joined
JoinComponents(d) ==
    LET title     == Strip(GetField(d, "title"))
        abstract  == Strip(GetField(d, "abstract"))
        main_text == Strip(GetField(d, "main_text"))
    IN  Join(SelectSeq(<<title, abstract, main_text>>, LAMBDA p : p # <<>>))

\* a normalizer that gives the message of a dict with the key "error": a
\* variant that FormatErrorFallsThrough must tell from combine_to_paragraph
CombineReportingError(result_dict) ==
    IF "error" \in DOMAIN result_dict
    THEN result_dict["error"]
    ELSE CleanParagraph(JoinComponents(result_dict))

combine_to_paragraph(result_dict) == CleanParagraph(JoinComponents(result_dict))

(***************************************************************************)
(* extract_enhanced_paper_content (lines 796-1156)                         *)
(***************************************************************************)
\* lines 814-828: the first section header longer than 20 characters that
\* names no standard section
RECURSIVE EnhancedTitle(_, _)
EnhancedTitle(texts, i) ==
    IF i > Len(texts) THEN <<>>
    ELSE IF IsSectionHeader(texts[i]) /\ IsLongHeaderTitle(texts[i])
         THEN Strip(TextOf(texts[i]))
    ELSE EnhancedTitle(texts, i + 1)

\* lines 918-948 (and 954-984, 990-1020, 1194-1224, 1234-1264): the metadata
\* keywords and both classifiers
PassesCaptureFilter(c) ==
    /\ ~ContainsAny(Lower(c), EnhancedIndicators)
    /\ ~_is_author_line(c)
    /\ ~_is_unwanted_content(c)

\* lines 903-1021: the end of the loop body, reached when no continue was taken
CaptureStep(st, text) ==
    LET c   == Strip(TextOf(text))
        st1 == IF /\ st.capturing_main
                  /\ IsSectionHeader(text)
                  /\ ContainsAny(Upper(c), EnhancedStopSections)
               THEN [st EXCEPT !.capturing_main = FALSE] ELSE st
        ok  == PassesCaptureFilter(c)
    IN  [st1 EXCEPT
            !.abstract_content =
                IF st1.capturing_abstract /\ PageNo(text) <= 3 /\ ok
                THEN Append(@, c) ELSE @,
            !.introduction_content =
                IF st1.capturing_introduction /\ PageNo(text) <= 5 /\ ok
                THEN Append(@, c) ELSE @,
            !.main_content =
                IF st1.capturing_main /\ PageNo(text) <= 6 /\ ok
                THEN Append(@, c) ELSE @]

\* lines 841-1021: the body of the section-aware loop
EnhancedStep(st, text) ==
    LET c == Strip(TextOf(text))
    IN  IF c = <<>> \/ IsHeaderFooter(text) \/ Len(c) < 3 THEN st
        ELSE IF IsSectionHeader(text) /\ Upper(c) = kwABSTRACT
             THEN [st EXCEPT !.capturing_abstract = TRUE]
        ELSE IF st.capturing_abstract /\ ContainsAny(c, EnhancedAbstractMarkers)
             THEN [st EXCEPT !.abstract_content = Append(@, c)]
        ELSE IF IsSectionHeader(text) /\ Contains(Upper(c), kwINTRODUCTION)
             THEN [st EXCEPT !.capturing_abstract = FALSE,
                             !.capturing_introduction = TRUE]
        ELSE IF IsSectionHeader(text) /\ ContainsAny(Upper(c), EnhancedMainSections)
             THEN [st EXCEPT !.capturing_introduction = FALSE,
                             !.capturing_main = TRUE]
        ELSE CaptureStep(st, text)

\* lines 834-839
EnhancedInit ==
    [abstract_content       |-> <<>>,
     introduction_content   |-> <<>>,
     main_content           |-> <<>>,
     capturing_abstract     |-> FALSE,
     capturing_introduction |-> FALSE,
     capturing_main         |-> FALSE]

RECURSIVE EnhancedScan(_, _, _)
EnhancedScan(texts, i, st) ==
    IF i > Len(texts) THEN st
    ELSE EnhancedScan(texts, i + 1, EnhancedStep(st, texts[i]))

\* main_content[:8]
FirstN(s, n) == SubSeq(s, 1, IF Len(s) < n THEN Len(s) ELSE n)

\* lines 830-831 and 1023-1033: the title is appended at line 831 and again
\* at line 1025
AssembleFragments(title, st) ==
    (IF title # <<>> THEN <<title, title>> ELSE <<>>)
        \o st.abstract_content
        \o st.introduction_content
        \o FirstN(st.main_content, 8)

\* set(s.lower().split())
WordSet(s) == LET w == Split(Lower(s)) IN {w[i] : i \in 1..Len(w)}

\* line 1044: len(title_words & content_words) / max(len(title_words), 1) < 0.7
IsDistinctFromTitle(title, content_piece) ==
    LET title_words == WordSet(title)
        n == Cardinality(title_words)
    IN  10 * Cardinality(title_words \cap WordSet(content_piece))
            < 7 * (IF n > 1 THEN n ELSE 1)

\* lines 1036-1047: the title, then the later fragments unlike it
DeduplicateTitle(title, fragments) ==
    IF title # <<>> /\ Len(fragments) > 1
    THEN <<title>> \o SelectSeq(Tail(fragments),
                                LAMBDA piece : IsDistinctFromTitle(title, piece))
    ELSE fragments

\* str.isdigit()
IsDigitStr(s) ==
    s # <<>> /\ \A i \in 1..Len(s) : s[i] \in Digits \cup {"<sup1>", "<sup2>"}

\* lines 1055-1127: what the rebuild loop appends
RebuildAccepts(text) ==
    LET c == Strip(TextOf(text))
    IN  /\ PageNo(text) <= 4
        /\ c # <<>>
        /\ ~IsHeaderFooter(text)
        /\ Len(c) >= 5
        /\ ~ContainsAny(Lower(c), RebuildIndicators)
        /\ ~_is_author_line(c)
        /\ ~_is_unwanted_content(c)
        /\ ~IsDigitStr(c)
        /\ ~(Len(c) < 50 /\ ContainsAny(Lower(c), JournalFragments))

RECURSIVE RebuildPass(_, _)
RebuildPass(texts, i) ==
    IF i > Len(texts) THEN <<>>
    ELSE (IF RebuildAccepts(texts[i]) THEN <<Strip(TextOf(texts[i]))>> ELSE <<>>)
             \o RebuildPass(texts, i + 1)

\* lines 1050-1127
RebuildIfSparse(title, texts, fragments) ==
    IF Len(fragments) < 5
    THEN (IF title # <<>> THEN <<title>> ELSE <<>>) \o RebuildPass(texts, 1)
    ELSE fragments

\* the list extracted_content at line 1130
EnhancedFragments(doc_json) ==
    LET texts == TextsOf(doc_json)
        title == EnhancedTitle(texts, 1)
        st    == EnhancedScan(texts, 1, EnhancedInit)
    IN  RebuildIfSparse(title, texts,
            DeduplicateTitle(title, AssembleFragments(title, st)))

\* lines 1133-1144: the first occurrence of every sentence longer than 10
RECURSIVE UniqueSentences(_, _, _)
UniqueSentences(sentences, i, seen) ==
    IF i > Len(sentences) THEN <<>>
    ELSE LET sentence_clean == Lower(Strip(sentences[i]))
         IN  IF Len(sentence_clean) > 10 /\ sentence_clean \notin seen
             THEN <<sentences[i]>>
                      \o UniqueSentences(sentences, i + 1, seen \cup {sentence_clean})
             ELSE UniqueSentences(sentences, i + 1, seen)

DeduplicateSentences(s) ==
    JoinWith(UniqueSentences(SplitOn(s, <<".", " ">>), 1, {}), <<".", " ">>)

\* lines 1147-1154 and 1271-1278: the clean-up of the fallback extractors
CleanFallbackText(s) ==
    Strip(CollapseSpaces(RejoinHyphens(StripLigatures(
        RemoveTildes(SpacePipes(FixPunctuation(CollapseSpaces(
            ReplaceNewlines(s)))))))))

\* lines 1130-1156
FinishEnhanced(fragments) == CleanFallbackText(DeduplicateSentences(Join(fragments)))

extract_enhanced_paper_content(doc_json) == FinishEnhanced(EnhancedFragments(doc_json))

(***************************************************************************)
(* extract_full_page_text (lines 1159-1280)                                *)
(***************************************************************************)
\* lines 1191-1225: an element of the first three pages that is kept
EarlyPageAccepts(text) ==
    LET c == Strip(TextOf(text))
    IN  /\ PageNo(text) <= 3
        /\ c # <<>>
        /\ ~IsHeaderFooter(text)
        /\ PassesCaptureFilter(c)

\* lines 1231-1265: the same test without the page limit
AnyPageAccepts(text) ==
    LET c == Strip(TextOf(text))
    IN  c # <<>> /\ ~IsHeaderFooter(text) /\ PassesCaptureFilter(c)

\* the stripped text of every element of a list
StrippedTexts(texts) == [i \in 1..Len(texts) |-> Strip(TextOf(texts[i]))]

\* lines 1182-1265
EarlyPageTexts(doc_json) ==
    LET texts == TextsOf(doc_json)
        early == StrippedTexts(SelectSeq(texts, EarlyPageAccepts))
    IN  IF early = <<>> /\ texts # <<>>
        THEN StrippedTexts(SelectSeq(FirstN(texts, 30), AnyPageAccepts))
        ELSE early

extract_full_page_text(doc_json) == CleanFallbackText(Join(EarlyPageTexts(doc_json)))

(***************************************************************************)
(* extract_pdf_text (lines 709-793): the cascade of lines 763-787          *)
(***************************************************************************)
\* the test of line 768 with < for <=: a variant that FullPageIffShortPrimary
\* must tell from NeedsFullPage
NeedsFullPageBelowTen(text) == WordCount(text) < 10

\* line 768
NeedsFullPage(text) == WordCount(text) <= 10

\* lines 775-779
NeedsEnhanced(text) ==
    \/ WordCount(text) < 100
    \/ ~Contains(Lower(text), Lower(kwINTRODUCTION))
    \/ Contains(Lower(text),
                <<"p", "h", "y", "t", "o", "c", "h", "e", "m", "i", "c", "a", "l", " ",
                  "a", "n", "a", "l", "y", "s", "i", "s">>)

\* the assignment of line 772 without the test of line 771: a variant that
\* OneFallbackAtMost must tell from AfterFullPage
AfterFullPageUntested(text, all_text) == all_text

\* lines 771-772: if all_text: combined_text = all_text
AfterFullPage(text, all_text) == IF all_text # <<>> THEN all_text ELSE text

\* lines 782-785
AfterEnhanced(text, enhanced_text) ==
    IF enhanced_text # <<>> /\ WordCount(enhanced_text) > WordCount(text)
    THEN enhanced_text ELSE text

\* lines 765-787: the text the endpoint returns
CascadeText(json_data) ==
    LET text == combine_to_paragraph(extract_from_docling_document(json_data))
    IN  IF NeedsFullPage(text) THEN AfterFullPage(text, extract_full_page_text(json_data))
        ELSE IF NeedsEnhanced(text)
             THEN AfterEnhanced(text, extract_enhanced_paper_content(json_data))
        ELSE text

(***************************************************************************)
(* The state machines.  Every specification uses the same variables; the   *)
(* ones a specification does not use keep the value Init gives them.       *)
(***************************************************************************)
\* all sequences of at most n elements of S: strings over a set of
\* characters, lists of text elements over a set of elements
SeqsUpTo(S, n) == UNION {[1..k -> S] : k \in 0..n}

(***************************************************************************)
(* SpecNorm: combine_to_paragraph applied to a result dict, then applied   *)
(* again to its own output                                                 *)
(***************************************************************************)
\* longest title drawn for the normalizer
MaxLen == 3

NormChars == {"a", "T", "-", " ", "\n", "~", ".", "|", "<oe>"}

AbstractSamples == {<<>>, <<"A">>, <<"b", "-">>, <<" ">>}

MainTextSamples == {<<>>, <<"M">>, <<"c">>}

\* the dicts combine_to_paragraph is given: the three sections, a dict with
\* a key missing, and the error dict of line 639
ResultDicts ==
    {[title |-> t, abstract |-> a, main_text |-> m] :
        t \in SeqsUpTo(NormChars, MaxLen), a \in AbstractSamples, m \in MainTextSamples}
    \cup {[title |-> t] : t \in SeqsUpTo(NormChars, MaxLen)}
    \cup {[error |-> NotDoclingError]}

InitNorm ==
    /\ pc = "extracted"
    /\ result \in ResultDicts
    /\ data = <<>>
    /\ texts_read = FALSE
    /\ primary_text = <<>>
    /\ combined_text = <<>>
    /\ calls = <<>>
    /\ extracted_content = <<>>
    /\ content = <<>>
    /\ is_author = FALSE
    /\ is_unwanted = FALSE
    /\ frames = <<>>

\* line 765: combined_text = combine_to_paragraph(result)
Combine ==
    /\ pc = "extracted"
    /\ pc' = "combined"
    /\ primary_text' = combine_to_paragraph(result)
    /\ combined_text' = primary_text'
    /\ UNCHANGED <<frames, data, texts_read, result, calls, extracted_content, content,
                   is_author, is_unwanted>>

\* combine_to_paragraph applied to the text it returned
Renormalize ==
    /\ pc = "combined"
    /\ pc' = "renormalized"
    /\ combined_text' = combine_to_paragraph([title |-> combined_text])
    /\ UNCHANGED <<frames, data, texts_read, result, primary_text, calls, extracted_content,
                   content, is_author, is_unwanted>>

NextNorm == Combine \/ Renormalize

SpecNorm == InitNorm /\ [][NextNorm]_vars

\* C5: normalizing the output of the normalizer gives that output again,
\* normalize(normalize(s)) = normalize(s)
NormalizerIdempotent ==
    pc = "renormalized" => combined_text = primary_text

\* a word character, a hyphen, one or more whitespace characters and a word
\* character, somewhere in s
HasBrokenHyphen(s) ==
    \E i \in 1..Len(s) :
        /\ s[i] \in WordChars
        /\ CharAt(s, i + 1) = "-"
        /\ IsSpace(CharAt(s, i + 2))
        /\ CharAt(s, RunEnd(s, i + 2)) \in WordChars

\* C7: no word-hyphen-whitespace-word occurrence remains in the output of
\* the normalizer, the two word characters having been made adjacent
HyphenRejoined ==
    pc = "combined" => ~HasBrokenHyphen(combined_text)

\* letters only, no lower-case letter directly before an upper-case one
IsPlainWord(s) ==
    /\ \A i \in 1..Len(s) : s[i] \in LowerAZ \cup UpperAZ
    /\ \A i \in 1..(Len(s) - 1) : ~(s[i] \in LowerAZ /\ s[i + 1] \in UpperAZ)

\* C6: the output is the clean-up of the stripped non-empty components in
\* the order title, abstract, main_text with one space between two of them;
\* it holds no newline; components that are plain words come out unchanged,
\* so {title: "T", abstract: "A", main_text: "M"} gives "T A M"
CombineOrder ==
    pc = "combined" =>
        LET title     == Strip(GetField(result, "title"))
            abstract  == Strip(GetField(result, "abstract"))
            main_text == Strip(GetField(result, "main_text"))
            Spaced(x, y) == IF x # <<>> /\ y # <<>> THEN x \o <<" ">> \o y ELSE x \o y
            joined    == Spaced(Spaced(title, abstract), main_text)
        IN  /\ combined_text = CleanParagraph(joined)
            /\ \A i \in 1..Len(combined_text) : combined_text[i] # "\n"
            /\ (IsPlainWord(title) /\ IsPlainWord(abstract) /\ IsPlainWord(main_text))
                   => combined_text = joined
            /\ (title = <<"T">> /\ abstract = <<"A">> /\ main_text = <<"M">>)
                   => combined_text = <<"T", " ", "A", " ", "M">>

\* the three components of the example have been combined
CombineOrderWitness ==
    /\ pc = "combined"
    /\ result = [title |-> <<"T">>, abstract |-> <<"A">>, main_text |-> <<"M">>]
    /\ combined_text = <<"T", " ", "A", " ", "M">>

(***************************************************************************)
(* SpecClassify: the two classifiers called on one text, in the order of   *)
(* the callers' test _is_author_line(content) or _is_unwanted_content(...) *)
(***************************************************************************)
\* longest text drawn character by character for the classifiers
MaxContentLen == 3

ClassifyChars == {"a", "A", " ", "1", "*", ",", "<dagger>"}

LongContents == {
    <<"M", "a", "r", "i", "a", " ", "R", "o", "s", "s", "i", ",", " ", "G", "i", "u", "l", "i", "a", " ", "B", "i", "a", "n", "c", "h", "i">>,
    <<"T", "h", "e", " ", "c", "a", "t", "a", "l", "y", "t", "i", "c", " ", "m", "e", "c", "h", "a", "n", "i", "s", "m", " ", "p", "r", "o", "c", "e", "e", "d", "s", " ", "v", "i", "a", " ", "n", "u", "c", "l", "e", "o", "p", "h", "i", "l", "i", "c", " ", "a", "t", "t", "a", "c", "k">>,
    <<"T", "a", "b", "l", "e", " ", "1", ":", " ", "y", "i", "e", "l", "d", "s">>,
    <<"w", "e", " ", "s", "t", "u", "d", "y", " ", "p", "l", "a", "n", "t", "s">>}

Contents == SeqsUpTo(ClassifyChars, MaxContentLen) \cup LongContents

InitClassify ==
    /\ pc = "start"
    /\ content \in Contents
    /\ is_author = FALSE
    /\ is_unwanted = FALSE
    /\ data = <<>>
    /\ texts_read = FALSE
    /\ result = <<>>
    /\ primary_text = <<>>
    /\ combined_text = <<>>
    /\ calls = <<>>
    /\ extracted_content = <<>>
    /\ frames = <<>>

IsAuthorLine ==
    /\ pc = "start"
    /\ pc' = "author_checked"
    /\ is_author' = _is_author_line(content)
    /\ UNCHANGED <<frames, data, texts_read, result, primary_text, combined_text, calls,
                   extracted_content, content, is_unwanted>>

IsUnwantedContent ==
    /\ pc = "author_checked"
    /\ pc' = "classified"
    /\ is_unwanted' = _is_unwanted_content(content)
    /\ UNCHANGED <<frames, data, texts_read, result, primary_text, combined_text, calls,
                   extracted_content, content, is_author>>

NextClassify == IsAuthorLine \/ IsUnwantedContent

SpecClassify == InitClassify /\ [][NextClassify]_vars

OneLetterWords(n) ==
    Flatten([i \in 1..n |-> IF i = 1 THEN <<"a">> ELSE <<" ", "a">>])

\* a level-1 header that qualifies as title
TitleHeader ==
    [label |-> "section_header",
     level |-> 1,
     text  |-> <<"N", "o", "v", "e", "l", " ", "F", "l", "a", "v", "o", "n", "o", "i", "d", "s", " ", "f", "r", "o", "m", " ", "P", "l", "a", "n", "t", " ", "X">>,
     prov  |-> <<[page_no |-> 1]>>]

\* a level-2 header longer than 20 characters
LongHeader ==
    [label |-> "section_header",
     level |-> 2,
     text  |-> <<"S", "u", "p", "p", "l", "e", "m", "e", "n", "t", "a", "r", "y", " ", "I", "n", "f", "o", "r", "m", "a", "t", "i", "o", "n", " ", "f", "o", "r", " ", "R", "e", "a", "d", "e", "r", "s">>,
     prov  |-> <<[page_no |-> 1]>>]

\* the header that starts the abstract
AbstractHeader ==
    [label |-> "section_header",
     text  |-> <<"A", "B", "S", "T", "R", "A", "C", "T">>,
     prov  |-> <<[page_no |-> 1]>>]

\* a paragraph of three words
AbstractParagraph ==
    [label |-> "text",
     text  |-> <<"w", "e", " ", "s", "t", "u", "d", "y", " ", "p", "l", "a", "n", "t", "s">>,
     prov  |-> <<[page_no |-> 1]>>]

\* the header that starts the main text
IntroHeader ==
    [label |-> "section_header",
     text  |-> <<"I", "n", "t", "r", "o", "d", "u", "c", "t", "i", "o", "n">>,
     prov  |-> <<[page_no |-> 2]>>]

\* an introduction header that also holds the inline abstract marker
MarkedIntroHeader ==
    [label |-> "section_header",
     text  |-> <<"I", "n", "t", "r", "o", "d", "u", "c", "t", "i", "o", "n", " ", "(", "a", "b", "s", "t", "r", "a", "c", "t", ":", " ", "a", "b", "o", "v", "e", ")">>,
     prov  |-> <<[page_no |-> 2]>>]

\* a paragraph of the second page
LaterParagraph ==
    [label |-> "text",
     text  |-> <<"l", "a", "t", "e", "r", " ", "t", "e", "x", "t">>,
     prov  |-> <<[page_no |-> 2]>>]

\* a paragraph of a hundred words
LongParagraph ==
    [label |-> "text",
     text  |-> OneLetterWords(100),
     prov  |-> <<[page_no |-> 2]>>]

\* eleven words, the first two the halves of a word broken at a hyphen
BrokenParagraph ==
    [label |-> "text",
     text  |-> <<"a", "n", "t", "i", "-", " ", "i", "n", "f", "l", "a", "m", "m", "a", "t", "o", "r", "y", " ", "a", " ", "b", " ", "c", " ", "d", " ", "e", " ", "f", " ", "g", " ", "h", " ", "i">>,
     prov  |-> <<[page_no |-> 1]>>]

\* a list of names
AuthorParagraph ==
    [label |-> "text",
     text  |-> <<"M", "a", "r", "i", "a", " ", "R", "o", "s", "s", "i", ",", " ", "G", "i", "u", "l", "i", "a", " ", "B", "i", "a", "n", "c", "h", "i">>,
     prov  |-> <<[page_no |-> 1]>>]

\* a header without level whose words are all lower-case
LowerTitleHeader ==
    [label |-> "section_header",
     text  |-> <<"a", " ", "n", "o", "v", "e", "l", " ", "m", "e", "t", "h", "o", "d", " ", "f", "o", "r", " ", "f", "l", "a", "v", "o", "n", "o", "i", "d", " ", "e", "x", "t", "r", "a", "c", "t", "i", "o", "n">>,
     prov  |-> <<[page_no |-> 1]>>]

\* a paragraph that shares five of the seven words of LowerTitleHeader
SimilarParagraph ==
    [label |-> "text",
     text  |-> <<"t", "h", "e", " ", "m", "e", "t", "h", "o", "d", " ", "f", "o", "r", " ", "f", "l", "a", "v", "o", "n", "o", "i", "d", " ", "e", "x", "t", "r", "a", "c", "t", "i", "o", "n", " ", "i", "s", " ", "n", "o", "v", "e", "l">>,
     prov  |-> <<[page_no |-> 1]>>]

(***************************************************************************)
(* Spec: one request of extract_pdf_text from the converted document on    *)
(* (lines 763-787)                                                         *)
(***************************************************************************)
\* longest list of text elements of a document of the cascade
MaxCascadeBlocks == 2

CascadeBlocks ==
    {TitleHeader, AbstractParagraph, IntroHeader, BrokenParagraph, AuthorParagraph}

\* documents whose primary text has a hundred words or more
LongDocuments ==
    {[schema_name |-> "DoclingDocument", texts |-> <<IntroHeader, LongParagraph>>],
     [schema_name |-> "DoclingDocument", texts |-> <<LongParagraph>>]}

\* documents with the Docling tag, with another tag, without a tag, a tagged
\* document without the key "texts", and the long documents
CascadeDocuments ==
    {[schema_name |-> "DoclingDocument", texts |-> t] :
        t \in SeqsUpTo(CascadeBlocks, MaxCascadeBlocks)}
    \cup {[schema_name |-> "OtherDocument", texts |-> t] :
        t \in SeqsUpTo(CascadeBlocks, MaxCascadeBlocks)}
    \cup {[texts |-> t] : t \in SeqsUpTo(CascadeBlocks, MaxCascadeBlocks)}
    \cup {[schema_name |-> "DoclingDocument"]}
    \cup LongDocuments

Init ==
    /\ pc = "start"
    /\ data \in CascadeDocuments
    /\ texts_read = FALSE
    /\ result = <<>>
    /\ primary_text = <<>>
    /\ combined_text = <<>>
    /\ calls = <<>>
    /\ extracted_content = <<>>
    /\ content = <<>>
    /\ is_author = FALSE
    /\ is_unwanted = FALSE
    /\ frames = <<>>

\* lines 565-637: the tag is the expected one; extract_paper_content and the
\* backfills read data["texts"]
ExtractSections ==
    /\ pc = "start"
    /\ IsDoclingDocument(data)
    /\ pc' = "extracted"
    /\ texts_read' = TRUE
    /\ result' = ExtractWithBackfill(data)
    /\ UNCHANGED <<frames, data, primary_text, combined_text, calls, extracted_content,
                   content, is_author, is_unwanted>>

\* lines 565, 638-639: any other document gets the error dict
RejectFormat ==
    /\ pc = "start"
    /\ ~IsDoclingDocument(data)
    /\ pc' = "extracted"
    /\ result' = [error |-> NotDoclingError]
    /\ UNCHANGED <<frames, data, texts_read, primary_text, combined_text, calls,
                   extracted_content, content, is_author, is_unwanted>>

\* lines 768-772
FullPageFallback ==
    /\ pc = "combined"
    /\ NeedsFullPage(combined_text)
    /\ pc' = "done"
    /\ calls' = Append(calls, "extract_full_page_text")
    /\ texts_read' = TRUE
    /\ combined_text' = AfterFullPage(combined_text, extract_full_page_text(data))
    /\ UNCHANGED <<frames, data, result, primary_text, extracted_content, content,
                   is_author, is_unwanted>>

\* lines 775-785
EnhancedFallback ==
    /\ pc = "combined"
    /\ ~NeedsFullPage(combined_text)
    /\ NeedsEnhanced(combined_text)
    /\ pc' = "done"
    /\ calls' = Append(calls, "extract_enhanced_paper_content")
    /\ texts_read' = TRUE
    /\ extracted_content' = EnhancedFragments(data)
    /\ combined_text' = AfterEnhanced(combined_text, FinishEnhanced(extracted_content'))
    /\ UNCHANGED <<frames, data, result, primary_text, content, is_author, is_unwanted>>

\* line 787 reached with neither branch taken
ReturnPrimary ==
    /\ pc = "combined"
    /\ ~NeedsFullPage(combined_text)
    /\ ~NeedsEnhanced(combined_text)
    /\ pc' = "done"
    /\ UNCHANGED <<frames, data, texts_read, result, primary_text, combined_text, calls,
                   extracted_content, content, is_author, is_unwanted>>

Next ==
    \/ ExtractSections
    \/ RejectFormat
    \/ Combine
    \/ FullPageFallback
    \/ EnhancedFallback
    \/ ReturnPrimary

Spec == Init /\ [][Next]_vars

\* the fallback extractors called so far
Called == {calls[i] : i \in 1..Len(calls)}

\* C2: section extraction runs only for a document whose schema tag is
\* "DoclingDocument"; a document whose tag is missing or different gets the
\* error dict, and none of its text elements is read
FormatGate ==
    pc = "extracted" =>
        IF "schema_name" \in DOMAIN data /\ data["schema_name"] = "DoclingDocument"
        THEN texts_read /\ DOMAIN result = {"title", "abstract", "main_text"}
        ELSE ~texts_read /\ result = [error |-> NotDoclingError]

\* a document with another tag and a text element has been given the error dict
FormatGateWitness ==
    /\ pc = "extracted"
    /\ "schema_name" \in DOMAIN data
    /\ data["schema_name"] = "OtherDocument"
    /\ TextsOf(data) # <<>>
    /\ result = [error |-> NotDoclingError]
    /\ ~texts_read

\* C3: extract_full_page_text is called exactly when the normalized primary
\* text has 10 or fewer words; a result with empty title and abstract and a
\* main_text of more than 10 words never has it called
FullPageOnlyWhenShort ==
    pc = "done" =>
        /\ ("extract_full_page_text" \in Called) <=> (WordCount(primary_text) <= 10)
        /\ ( /\ GetField(result, "title") = <<>>
             /\ GetField(result, "abstract") = <<>>
             /\ WordCount(GetField(result, "main_text")) > 10 )
               => "extract_full_page_text" \notin Called

\* C3, as the code has it: extract_full_page_text is called exactly when the
\* normalized primary text has 10 or fewer words; a result with empty title
\* and abstract whose main_text has more than 10 words after normalization
\* never has it called
FullPageIffShortPrimary ==
    /\ pc # "done" => calls = <<>>
    /\ pc = "done" =>
        /\ ("extract_full_page_text" \in Called) <=> (WordCount(primary_text) <= 10)
        /\ ( /\ GetField(result, "title") = <<>>
             /\ GetField(result, "abstract") = <<>>
             /\ WordCount(CleanParagraph(Strip(GetField(result, "main_text")))) > 10 )
               => "extract_full_page_text" \notin Called

\* a main_text of eleven words that normalizes to ten has had the full-page
\* text extracted
FullPageWitness ==
    /\ pc = "done"
    /\ GetField(result, "title") = <<>>
    /\ GetField(result, "abstract") = <<>>
    /\ WordCount(GetField(result, "main_text")) = 11
    /\ WordCount(primary_text) = 10
    /\ calls = <<"extract_full_page_text">>

\* C4: the output of a fallback replaces the primary text only if it has
\* strictly more words, so the text returned never has fewer words than the
\* primary text
FallbackNeverShrinks ==
    pc = "done" =>
        /\ WordCount(combined_text) >= WordCount(primary_text)
        /\ combined_text # primary_text
               => WordCount(combined_text) > WordCount(primary_text)

\* C21: one request calls at most one fallback extractor.  A primary text of
\* 10 or fewer words has extract_full_page_text called and nothing else, and
\* when that returns the empty text the primary text is returned as it is;
\* a primary text of more than 10 words has at most
\* extract_enhanced_paper_content called
OneFallbackAtMost ==
    /\ Len(calls) <= 1
    /\ pc = "done" =>
           IF WordCount(primary_text) <= 10
           THEN /\ calls = <<"extract_full_page_text">>
                /\ extract_full_page_text(data) = <<>> => combined_text = primary_text
           ELSE Called \subseteq {"extract_enhanced_paper_content"}

\* a primary text of a few words was returned as it is after
\* extract_full_page_text, the only extractor called, gave the empty text
OneFallbackWitness ==
    /\ pc = "done"
    /\ primary_text # <<>>
    /\ WordCount(primary_text) <= 10
    /\ calls = <<"extract_full_page_text">>
    /\ extract_full_page_text(data) = <<>>
    /\ combined_text = primary_text

\* C22: a document without the tag "DoclingDocument" does not end the
\* request: its error dict is combined to the empty text, which has
\* extract_full_page_text called on the document, and the request returns
\* the text of that extractor, empty or not
FormatErrorFallsThrough ==
    ~IsDoclingDocument(data) =>
        /\ pc \in {"extracted", "combined", "done"} => result = [error |-> NotDoclingError]
        /\ pc \in {"combined", "done"} => primary_text = <<>>
        /\ pc = "done" =>
               /\ calls = <<"extract_full_page_text">>
               /\ combined_text = extract_full_page_text(data)

\* a document without the tag has had the text of its elements returned
FormatErrorWitness ==
    /\ pc = "done"
    /\ "schema_name" \notin DOMAIN data
    /\ result = [error |-> NotDoclingError]
    /\ calls = <<"extract_full_page_text">>
    /\ combined_text # <<>>
    /\ combined_text = extract_full_page_text(data)

(***************************************************************************)
(* SpecSections: extract_paper_content on a Docling document, then the     *)
(* backfills of extract_from_docling_document (lines 567-637)              *)
(***************************************************************************)
\* longest list of text elements of a document of the extractors
MaxBlocks == 3

SectionBlocks ==
    {TitleHeader, LongHeader, AbstractHeader, AbstractParagraph, IntroHeader,
     MarkedIntroHeader, LaterParagraph}

\* a page footer that holds the inline abstract marker
InlineAbstractFooter ==
    [label |-> "page_footer",
     text  |-> <<"A", "B", "S", "T", "R", "A", "C", "T", ":", " ", "j", "o", "u", "r", "n", "a", "l", " ", "o", "f", " ", "p", "l", "a", "n", "t", "s">>,
     prov  |-> <<[page_no |-> 1]>>]

\* a page header that starts like a structured abstract
StructuredHeader ==
    [label |-> "page_header",
     text  |-> <<"O", "b", "j", "e", "c", "t", "i", "v", "e", ":", " ", "t", "o", " ", "f", "i", "n", "d", " ", "r", "o", "o", "t", "s">>,
     prov  |-> <<[page_no |-> 1]>>]

\* a running header
RunningHeader ==
    [label |-> "page_header",
     text  |-> <<"P", "l", "a", "n", "t", " ", "L", "e", "t", "t", "e", "r", "s">>,
     prov  |-> <<[page_no |-> 2]>>]

\* documents with page headers and page footers
FurnitureBlocks ==
    {InlineAbstractFooter, StructuredHeader, RunningHeader, AbstractHeader,
     AbstractParagraph, IntroHeader}

\* a header that names the section where the main text stops
ResultsHeader ==
    [label |-> "section_header",
     text  |-> <<"R", "e", "s", "u", "l", "t", "s">>,
     prov  |-> <<[page_no |-> 2]>>]

\* a header that names a section where the main text starts and the section
\* where it stops
ExperimentalResultsHeader ==
    [label |-> "section_header",
     text  |-> <<"E", "x", "p", "e", "r", "i", "m", "e", "n", "t", "a", "l", " ", "R", "e", "s", "u", "l", "t", "s">>,
     prov  |-> <<[page_no |-> 2]>>]

\* an introduction header on a page after the sixth
LateIntroHeader ==
    [label |-> "section_header",
     text  |-> <<"I", "n", "t", "r", "o", "d", "u", "c", "t", "i", "o", "n">>,
     prov  |-> <<[page_no |-> 7]>>]

\* a paragraph on a page after the sixth
LateParagraph ==
    [label |-> "text",
     text  |-> <<"r", "o", "o", "t", "s", " ", "g", "r", "o", "w", " ", "d", "e", "e", "p">>,
     prov  |-> <<[page_no |-> 7]>>]

\* documents whose main text starts, stops and reaches late pages
MainTextBlocks ==
    {IntroHeader, LaterParagraph, ResultsHeader, ExperimentalResultsHeader,
     LateIntroHeader, LateParagraph}

SectionDocuments ==
    {[schema_name |-> "DoclingDocument", texts |-> t] :
        t \in SeqsUpTo(SectionBlocks, MaxBlocks)
                 \cup SeqsUpTo(FurnitureBlocks, MaxBlocks)
                 \cup SeqsUpTo(MainTextBlocks, MaxBlocks)}

InitSections ==
    /\ pc = "start"
    /\ data \in SectionDocuments
    /\ texts_read = FALSE
    /\ result = <<>>
    /\ primary_text = <<>>
    /\ combined_text = <<>>
    /\ calls = <<>>
    /\ extracted_content = <<>>
    /\ content = <<>>
    /\ is_author = FALSE
    /\ is_unwanted = FALSE
    /\ frames = <<>>

\* line 567: result = extract_paper_content(data)
ExtractPaperContent ==
    /\ pc = "start"
    /\ IsDoclingDocument(data)
    /\ pc' = "sections"
    /\ texts_read' = TRUE
    /\ result' = extract_paper_content(data)
    /\ UNCHANGED <<frames, data, primary_text, combined_text, calls, extracted_content,
                   content, is_author, is_unwanted>>

\* lines 570-637: the backfills of an empty title and an empty abstract
Backfill ==
    /\ pc = "sections"
    /\ pc' = "extracted"
    /\ result' = ExtractWithBackfill(data)
    /\ UNCHANGED <<frames, data, texts_read, primary_text, combined_text, calls,
                   extracted_content, content, is_author, is_unwanted>>

NextSections == ExtractPaperContent \/ Backfill

SpecSections == InitSections /\ [][NextSections]_vars

\* the least element of a non-empty set of indices
First(S) == CHOOSE i \in S : \A j \in S : i <= j

\* C8: when some section header has level 1, no "RESULTS" in its text and a
\* text longer than 5 characters, the title is the text of the first such
\* header, whatever headers precede it; the first header longer than 20
\* characters without a section keyword is the title only when there is none
LevelOneTitleFirst ==
    pc = "sections" =>
        LET texts == TextsOf(data)
            levelOne == {i \in 1..Len(texts) :
                            /\ LabelOf(texts[i]) = "section_header"
                            /\ Get(texts[i], "level", 0) = 1
                            /\ ~Contains(Upper(TextOf(texts[i])), kwRESULTS)
                            /\ Len(TextOf(texts[i])) > 5}
            longOnes == {i \in 1..Len(texts) :
                            /\ LabelOf(texts[i]) = "section_header"
                            /\ Len(Strip(TextOf(texts[i]))) > 20
                            /\ ~ContainsAny(Upper(TextOf(texts[i])), TitleStopWords)}
        IN  IF levelOne # {} THEN result.title = TextOf(texts[First(levelOne)])
            ELSE IF longOnes # {} THEN result.title = Strip(TextOf(texts[First(longOnes)]))
            ELSE result.title = <<>>

\* C9: abstract collection stops at the first section header containing
\* "INTRODUCTION" after the start of collection: the abstract holds neither
\* the text of that header nor the text of a block after it
AbstractStopsAtIntroduction ==
    pc = "sections" =>
        LET texts == TextsOf(data)
            starts == {i \in 1..Len(texts) :
                          \/ /\ LabelOf(texts[i]) = "section_header"
                             /\ Upper(Strip(TextOf(texts[i]))) = kwABSTRACT
                          \/ Contains(Upper(TextOf(texts[i])), kwABSTRACT \o <<":">>)}
            stops  == {k \in 1..Len(texts) :
                          /\ starts # {}
                          /\ k > First(starts)
                          /\ LabelOf(texts[k]) = "section_header"
                          /\ Contains(Upper(TextOf(texts[k])), kwINTRODUCTION)}
        IN  stops # {} =>
                /\ ~Contains(result.abstract, Strip(TextOf(texts[First(stops)])))
                /\ \A j \in (First(stops) + 1)..Len(texts) :
                       (\A i \in 1..(First(stops) - 1) : TextOf(texts[i]) # TextOf(texts[j]))
                           => ~Contains(result.abstract, Strip(TextOf(texts[j])))

(***************************************************************************)
(* SpecEnhanced: extract_enhanced_paper_content, the fragment list of line *)
(* 1130 and then the text made of it                                       *)
(***************************************************************************)
\* longest list of text elements drawn for the enhanced extractor
MaxEnhancedBlocks == 2

EnhancedBlocks ==
    {LowerTitleHeader, SimilarParagraph, AbstractHeader, AbstractParagraph,
     IntroHeader, LaterParagraph}

\* a document whose section-aware scan gives five fragments after the
\* deduplication, so that the rebuild of lines 1050-1127 is not entered
SectionedDocument ==
    [schema_name |-> "DoclingDocument",
     texts |-> <<LowerTitleHeader, AbstractHeader, AbstractParagraph, AbstractParagraph,
                 SimilarParagraph, IntroHeader, LaterParagraph, LaterParagraph>>]

\* a document whose abstract header follows its introduction header, with
\* three paragraphs after both
LateAbstractDocument ==
    [schema_name |-> "DoclingDocument",
     texts |-> <<IntroHeader, AbstractHeader, AbstractParagraph, LaterParagraph,
                 AbstractParagraph>>]

\* a paragraph that holds a structured-abstract marker and an institution
AffiliationParagraph ==
    [label |-> "text",
     text  |-> <<"A", "i", "m", ":", " ", "U", "n", "i", "v", "e", "r", "s", "i", "t", "y", " ", "o", "f", " ", "R", "o", "m", "e">>,
     prov  |-> <<[page_no |-> 1]>>]

\* a document whose abstract holds the paragraph with the institution
AffiliationDocument ==
    [schema_name |-> "DoclingDocument",
     texts |-> <<AbstractHeader, AffiliationParagraph, AbstractParagraph, LaterParagraph,
                 AbstractParagraph, LaterParagraph>>]

\* a paragraph with a lower-case letter before a capital
CamelCaseParagraph ==
    [label |-> "text",
     text  |-> <<"p", "l", "a", "n", "t", "R", "o", "o", "t", "s", " ", "g", "r", "o", "w">>,
     prov  |-> <<[page_no |-> 1]>>]

CamelCaseDocument ==
    [schema_name |-> "DoclingDocument",
     texts |-> <<CamelCaseParagraph, AbstractParagraph, LaterParagraph>>]

EnhancedDocuments ==
    {[schema_name |-> "DoclingDocument", texts |-> t] :
        t \in SeqsUpTo(EnhancedBlocks, MaxEnhancedBlocks)}
    \cup {SectionedDocument, LateAbstractDocument, AffiliationDocument, CamelCaseDocument}

InitEnhanced ==
    /\ pc = "start"
    /\ data \in EnhancedDocuments
    /\ texts_read = FALSE
    /\ result = <<>>
    /\ primary_text = <<>>
    /\ combined_text = <<>>
    /\ calls = <<>>
    /\ extracted_content = <<>>
    /\ content = <<>>
    /\ is_author = FALSE
    /\ is_unwanted = FALSE
    /\ frames = <<>>

\* lines 811-1127: the scan, the assembly, the deduplication and the rebuild
AssembleEnhanced ==
    /\ pc = "start"
    /\ pc' = "assembled"
    /\ texts_read' = TRUE
    /\ extracted_content' = EnhancedFragments(data)
    /\ UNCHANGED <<frames, data, result, primary_text, combined_text, calls, content,
                   is_author, is_unwanted>>

\* lines 1130-1156: the fragments joined, deduplicated by sentence, cleaned
JoinEnhanced ==
    /\ pc = "assembled"
    /\ pc' = "done"
    /\ combined_text' = FinishEnhanced(extracted_content)
    /\ UNCHANGED <<frames, data, texts_read, result, primary_text, calls, extracted_content,
                   content, is_author, is_unwanted>>

NextEnhanced == AssembleEnhanced \/ JoinEnhanced

SpecEnhanced == InitEnhanced /\ [][NextEnhanced]_vars

\* the lower-cased words of a fragment, as a set
LowerWords(s) == {Split(Lower(s))[i] : i \in 1..Len(Split(Lower(s)))}

\* C10: when a title was found, the fragment list made into the output has
\* the title as first fragment and nowhere else, and no other fragment whose
\* lower-cased words hold 70% or more of the lower-cased words of the title
TitleOnceInFragments ==
    pc = "assembled" =>
        LET texts  == TextsOf(data)
            titled == {i \in 1..Len(texts) :
                          /\ LabelOf(texts[i]) = "section_header"
                          /\ Len(Strip(TextOf(texts[i]))) > 20
                          /\ ~ContainsAny(Upper(TextOf(texts[i])), TitleStopWords)}
            title  == Strip(TextOf(texts[First(titled)]))
        IN  titled # {} =>
                /\ extracted_content # <<>>
                /\ extracted_content[1] = title
                /\ \A i \in 2..Len(extracted_content) :
                       /\ extracted_content[i] # title
                       /\ 10 * Cardinality(LowerWords(title) \cap LowerWords(extracted_content[i]))
                              < 7 * Cardinality(LowerWords(title))

\* the locals of the section-aware loop after the first k elements
ScanOfPrefix(texts, k) == EnhancedScan(SubSeq(texts, 1, k), 1, EnhancedInit)

\* the capture flags that are set
FlagsSet(st) ==
    {f \in {"capturing_abstract", "capturing_introduction", "capturing_main"} : st[f]}

\* the buffers that are longer in st than in before
BuffersGrown(before, st) ==
    {b \in {"abstract_content", "introduction_content", "main_content"} :
        Len(st[b]) > Len(before[b])}

\* C15: after any prefix of the blocks the section-aware loop of the
\* enhanced extractor has at most one of capturing_abstract,
\* capturing_introduction and capturing_main set, and no block is appended
\* to more than one of the abstract, introduction and main buffers
ExclusiveCaptureFlags ==
    pc = "assembled" =>
        LET texts == TextsOf(data)
        IN  \A k \in 1..Len(texts) :
                /\ Cardinality(FlagsSet(ScanOfPrefix(texts, k))) <= 1
                /\ Cardinality(BuffersGrown(ScanOfPrefix(texts, k - 1),
                                            ScanOfPrefix(texts, k))) <= 1

\* the elements of a list, as a set
Elements(list) == {list[i] : i \in 1..Len(list)}

\* C16: every text the section-aware loop of the enhanced extractor has put
\* into the abstract, introduction or main buffer is no author line, no
\* unwanted content and holds none of the inline metadata keywords
CapturedTextsFiltered ==
    pc = "assembled" =>
        LET texts == TextsOf(data)
            st    == ScanOfPrefix(texts, Len(texts))
        IN  \A c \in Elements(st.abstract_content)
                          \cup Elements(st.introduction_content)
                          \cup Elements(st.main_content) :
                /\ ~_is_author_line(c)
                /\ ~_is_unwanted_content(c)
                /\ ~ContainsAny(Lower(c), EnhancedIndicators)

\* C19: the text extract_enhanced_paper_content returns and the text
\* extract_full_page_text returns are what the clean-up of
\* combine_to_paragraph (lines 688-704), the split at a lower-case letter
\* before a capital included, makes of the text each has assembled
CleanUpAsNormalizer ==
    pc = "done" =>
        /\ combined_text = CleanParagraph(DeduplicateSentences(Join(extracted_content)))
        /\ extract_full_page_text(data) = CleanParagraph(Join(EarlyPageTexts(data)))

\* the position of the element the title was taken from, 0 without a title
TitleIndex(texts) ==
    LET titled == {i \in 1..Len(texts) :
                      IsSectionHeader(texts[i]) /\ IsLongHeaderTitle(texts[i])}
    IN  IF titled = {} THEN 0 ELSE First(titled)

\* C20: a fragment list shorter than 5 after the title deduplication is
\* replaced by the title followed, in document order, by the text of every
\* other element the rebuild accepts (page 4 or less, past the filters, not
\* a number, no short journal fragment): the element the title came from is
\* not added again
RebuildSkipsTitleBlock ==
    pc = "assembled" =>
        LET texts  == TextsOf(data)
            title  == EnhancedTitle(texts, 1)
            sparse == DeduplicateTitle(title,
                          AssembleFragments(title, ScanOfPrefix(texts, Len(texts))))
            others == SelectSeq([i \in 1..Len(texts) |-> i],
                          LAMBDA i : i # TitleIndex(texts) /\ RebuildAccepts(texts[i]))
        IN  Len(sparse) < 5
                => extracted_content =
                       (IF title # <<>> THEN <<title>> ELSE <<>>)
                           \o [j \in 1..Len(others) |-> Strip(TextOf(texts[others[j]]))]

(***************************************************************************)
(* SpecTotal: the three extractors called on documents whose text elements *)
(* lack keys.  calls is the list of the outcomes, one record a call.       *)
(***************************************************************************)
\* longest list of text elements of a document with missing keys
MaxMalformedBlocks == 2

\* a text element without any key
EmptyBlock == <<>>

NoProvBlock ==
    [label |-> "text",
     text  |-> <<"l", "a", "t", "e", "r", " ", "t", "e", "x", "t">>]

EmptyProvBlock ==
    [label |-> "text",
     text  |-> <<"w", "e", " ", "s", "t", "u", "d", "y", " ", "p", "l", "a", "n", "t", "s">>,
     prov  |-> <<>>]

\* the entry of prov has no page_no
NoPageBlock ==
    [label |-> "section_header",
     text  |-> <<"I", "n", "t", "r", "o", "d", "u", "c", "t", "i", "o", "n">>,
     prov  |-> << <<>> >>]

NoTextBlock ==
    [label |-> "section_header",
     level |-> 1,
     prov  |-> <<[page_no |-> 1]>>]

NoLabelBlock ==
    [text |-> <<"r", "o", "o", "t", "s", " ", "a", "b", "s", "o", "r", "b", " ", "w", "a", "t", "e", "r">>,
     prov |-> <<[page_no |-> 7]>>]

OddLabelBlock ==
    [label |-> "caption",
     text  |-> <<"l", "e", "a", "v", "e", "s", " ", "a", "r", "e", " ", "g", "r", "e", "e", "n">>,
     prov  |-> <<[page_no |-> 2]>>]

MalformedBlocks ==
    {EmptyBlock, NoProvBlock, EmptyProvBlock, NoPageBlock, NoTextBlock, NoLabelBlock,
     OddLabelBlock}

MalformedDocuments ==
    {[schema_name |-> "DoclingDocument", texts |-> t] :
        t \in SeqsUpTo(MalformedBlocks, MaxMalformedBlocks)}
    \cup {[schema_name |-> "DoclingDocument"]}

InitTotal ==
    /\ pc = "start"
    /\ data \in MalformedDocuments
    /\ texts_read = FALSE
    /\ result = <<>>
    /\ primary_text = <<>>
    /\ combined_text = <<>>
    /\ calls = <<>>
    /\ extracted_content = <<>>
    /\ content = <<>>
    /\ is_author = FALSE
    /\ is_unwanted = FALSE
    /\ frames = <<>>

\* some page lookup of the loops of extract_paper_content and
\* extract_enhanced_paper_content raises
LookupRaises(doc_json) ==
    \E i \in 1..Len(TextsOf(doc_json)) : PageNoRaises(TextsOf(doc_json)[i])

\* extract_paper_content(data): the value returned, or the exception
CallPaperContent ==
    /\ pc = "start"
    /\ pc' = "paper_content"
    /\ calls' = Append(calls,
                       IF LookupRaises(data)
                       THEN [fn |-> "extract_paper_content", raised |-> TRUE]
                       ELSE [fn |-> "extract_paper_content", raised |-> FALSE,
                             value |-> extract_paper_content(data)])
    /\ UNCHANGED <<frames, data, texts_read, result, primary_text, combined_text,
                   extracted_content, content, is_author, is_unwanted>>

\* extract_enhanced_paper_content(data)
CallEnhancedContent ==
    /\ pc = "paper_content"
    /\ pc' = "enhanced_content"
    /\ calls' = Append(calls,
                       IF LookupRaises(data)
                       THEN [fn |-> "extract_enhanced_paper_content", raised |-> TRUE]
                       ELSE [fn |-> "extract_enhanced_paper_content", raised |-> FALSE,
                             value |-> extract_enhanced_paper_content(data)])
    /\ UNCHANGED <<frames, data, texts_read, result, primary_text, combined_text,
                   extracted_content, content, is_author, is_unwanted>>

\* extract_full_page_text(data)
CallFullPageText ==
    /\ pc = "enhanced_content"
    /\ pc' = "full_page_text"
    /\ calls' = Append(calls,
                       IF \E i \in 1..Len(TextsOf(data)) : FullPageNoRaises(TextsOf(data)[i])
                       THEN [fn |-> "extract_full_page_text", raised |-> TRUE]
                       ELSE [fn |-> "extract_full_page_text", raised |-> FALSE,
                             value |-> extract_full_page_text(data)])
    /\ UNCHANGED <<frames, data, texts_read, result, primary_text, combined_text,
                   extracted_content, content, is_author, is_unwanted>>

NextTotal == CallPaperContent \/ CallEnhancedContent \/ CallFullPageText

SpecTotal == InitTotal /\ [][NextTotal]_vars

\* the text element with the text and the page number written out: the
\* empty text for a missing text, page 1 for a missing page number
WithDefaults(text) ==
    [k \in DOMAIN text \cup {"text", "prov"} |->
        IF k = "text" THEN (IF "text" \in DOMAIN text THEN text["text"] ELSE <<>>)
        ELSE IF k = "prov"
             THEN (IF /\ "prov" \in DOMAIN text
                      /\ text["prov"] # <<>>
                      /\ "page_no" \in DOMAIN text["prov"][1]
                   THEN text["prov"]
                   ELSE <<[page_no |-> 1]>>)
        ELSE text[k]]

\* the document with every text element written out, and the empty list for
\* a missing list
DocumentWithDefaults(doc_json) ==
    [schema_name |-> doc_json["schema_name"],
     texts |-> IF "texts" \in DOMAIN doc_json
               THEN [i \in 1..Len(doc_json["texts"]) |-> WithDefaults(doc_json["texts"][i])]
               ELSE <<>>]

\* C11: on every list of text elements, with texts, labels, levels and page
\* numbers missing, each of the three extractors returns a value and does
\* not raise; the value is the one it returns when a missing page number is
\* written as page 1 and a missing text as the empty text
Totality ==
    \A i \in 1..Len(calls) :
        /\ ~calls[i].raised
        /\ calls[i].value =
              IF calls[i].fn = "extract_paper_content"
              THEN extract_paper_content(DocumentWithDefaults(data))
              ELSE IF calls[i].fn = "extract_enhanced_paper_content"
              THEN extract_enhanced_paper_content(DocumentWithDefaults(data))
              ELSE extract_full_page_text(DocumentWithDefaults(data))

\* the three extractors have returned on a document that holds an element
\* without keys and an element with an empty prov list
TotalityWitness ==
    /\ pc = "full_page_text"
    /\ Len(calls) = 3
    /\ TextsOf(data) = <<EmptyBlock, EmptyProvBlock>>
    /\ \A i \in 1..3 : ~calls[i].raised

(***************************************************************************)
(* SpecClassify, the two example texts                                     *)
(***************************************************************************)
NameListExample ==
    <<"M", "a", "r", "i", "a", " ", "R", "o", "s", "s", "i", ",", " ", "G", "i", "u", "l", "i", "a", " ", "B", "i", "a", "n", "c", "h", "i">>

NarrativeExample ==
    <<"T", "h", "e", " ", "c", "a", "t", "a", "l", "y", "t", "i", "c", " ", "m", "e", "c", "h", "a", "n", "i", "s", "m", " ", "p", "r", "o", "c", "e", "e", "d", "s", " ", "v", "i", "a", " ", "n", "u", "c", "l", "e", "o", "p", "h", "i", "l", "i", "c", " ", "a", "t", "t", "a", "c", "k">>

\* C12: _is_author_line is true of the comma-separated list of two
\* capitalized name pairs and false of the narrative sentence
AuthorLineExamples ==
    pc # "start" =>
        /\ content = NameListExample => is_author
        /\ content = NarrativeExample => ~is_author

(***************************************************************************)
(* SpecSections, the later properties                                      *)
(***************************************************************************)
\* C13: no text of a page_header or page_footer block is in the title, the
\* abstract or the main_text that extract_from_docling_document returns,
\* with or without the inline marker "ABSTRACT:" in front of it
NoHeaderFooterText ==
    pc = "extracted" =>
        LET texts == TextsOf(data)
        IN  \A i \in 1..Len(texts) :
                LET bare == Strip(RemoveAll(Strip(TextOf(texts[i])), kwABSTRACT \o <<":">>))
                IN  ( /\ LabelOf(texts[i]) \in {"page_header", "page_footer"}
                      /\ bare # <<>>
                      /\ \A j \in 1..Len(texts) :
                             LabelOf(texts[j]) \in {"page_header", "page_footer"}
                                 \/ ~Contains(TextOf(texts[j]), bare) )
                        => /\ ~Contains(result.title, bare)
                           /\ ~Contains(result.abstract, bare)
                           /\ ~Contains(result.main_text, bare)

\* the locals of the main-text loop of lines 442-497 after the first k elements
MainOfPrefix(texts, k) ==
    MainScan(SubSeq(texts, 1, k), 1,
             [found_intro |-> FALSE, main_text |-> <<>>, stopped |-> FALSE])

\* a section header whose text holds RESULTS, REFERENCES, BIBLIOGRAPHY or
\* ACKNOWLEDGMENT
IsStopHeader(text) ==
    IsSectionHeader(text) /\ ContainsAny(Upper(Strip(TextOf(text))), MainStopSections)

\* C17: once the intro flag of extract_paper_content is set, a later section
\* header that holds RESULTS, REFERENCES, BIBLIOGRAPHY or ACKNOWLEDGMENT ends
\* the main text: main_text is what the elements before that header give,
\* without the header's text and without the text of any element after it
MainTextStopsAtHeader ==
    pc = "sections" =>
        LET texts == TextsOf(data)
        IN  \A j \in 1..Len(texts) :
                IsStopHeader(texts[j]) /\ MainOfPrefix(texts, j - 1).found_intro
                    => result.main_text = Join(MainOfPrefix(texts, j - 1).main_text)

\* C18: in the main-text loop of extract_paper_content an element on a page
\* above 6 adds nothing to main_text
MainTextPageCeiling ==
    pc = "sections" =>
        LET texts == TextsOf(data)
        IN  \A k \in 1..Len(texts) :
                PageNo(texts[k]) > 6
                    => MainOfPrefix(texts, k).main_text = MainOfPrefix(texts, k - 1).main_text

\* the locals of the abstract loop of lines 392-436 after the first k elements
AbstractOfPrefix(texts, k) ==
    AbstractScan(SubSeq(texts, 1, k), 1,
                 [collecting_abstract |-> FALSE, abstract_section |-> <<>>,
                  stopped |-> FALSE])

\* C23: no element of the document has its text collected by the abstract
\* loop and by the main-text loop of one extract_paper_content call
SectionsDisjoint ==
    pc = "sections" =>
        LET texts == TextsOf(data)
        IN  \A k \in 1..Len(texts) :
                ~ /\ Len(AbstractOfPrefix(texts, k).abstract_section)
                         > Len(AbstractOfPrefix(texts, k - 1).abstract_section)
                  /\ Len(MainOfPrefix(texts, k).main_text)
                         > Len(MainOfPrefix(texts, k - 1).main_text)

(***************************************************************************)
(* Two extraction calls in separate execution contexts (lines 345-639,     *)
(* 796-1280): every call holds its locals in a frame of its own, and the   *)
(* loops advance one element at a time, interleaved in any order            *)
(***************************************************************************)
MaxConcurrentBlocks == 2

ConcurrentBlocks == {AbstractHeader, AbstractParagraph, IntroHeader}

\* the document of the second call
OtherDocument ==
    [schema_name |-> "DoclingDocument", texts |-> <<IntroHeader, AbstractParagraph>>]

ConcurrentDocuments ==
    {[schema_name |-> "DoclingDocument", texts |-> t] :
        t \in SeqsUpTo(ConcurrentBlocks, MaxConcurrentBlocks)}

\* the functions of the two calls: every function is the first call and the
\* second call of a pair, and one pair runs the same function twice
ExtractionPairs ==
    {<<"extract_from_docling_document", "extract_from_docling_document">>,
     <<"extract_from_docling_document", "extract_enhanced_paper_content">>,
     <<"extract_enhanced_paper_content", "extract_full_page_text">>,
     <<"extract_full_page_text", "extract_from_docling_document">>}

Contexts == {1, 2}

\* every context addressing the frame of context 1: a variant of FrameOf that
\* IsolatedCalls must tell from it
SharedFrame(p) == 1

\* lines 355-360, 806-810, 1181: the locals are created by the call itself,
\* one set for every invocation
FrameOf(p) == p

\* the locals of the three functions at their initial values (lines 355-357,
\* 387-389, 438-439, 807-810, 832-838, 1181)
NewFrame(loop, title) ==
    [loop                   |-> loop,
     i                      |-> 1,
     title                  |-> title,
     collecting_abstract    |-> FALSE,
     abstract_section       |-> <<>>,
     found_intro            |-> FALSE,
     main_text              |-> <<>>,
     stopped                |-> FALSE,
     abstract_content       |-> <<>>,
     introduction_content   |-> <<>>,
     main_content           |-> <<>>,
     capturing_abstract     |-> FALSE,
     capturing_introduction |-> FALSE,
     capturing_main         |-> FALSE,
     all_texts              |-> <<>>]

\* the locals of a call when its first scanning loop begins: the title loop
\* of lines 363-385 or 814-828 has run (extract_full_page_text has none), and
\* the loop of line 392, 840 or 1184 is next
EntryFrame(fn, texts) ==
    IF fn = "extract_from_docling_document"
    THEN NewFrame("abstract", FindTitle(texts, 1))
    ELSE IF fn = "extract_enhanced_paper_content"
         THEN NewFrame("scan", EnhancedTitle(texts, 1))
    ELSE NewFrame("early", <<>>)

\* the list a loop iterates: texts, and texts[:30] at line 1229
LoopTexts(f, doc_json) ==
    IF f.loop = "any" THEN FirstN(TextsOf(doc_json), 30) ELSE TextsOf(doc_json)

\* a loop goes on while elements are left and no break was taken
LoopGoesOn(f, doc_json) ==
    /\ f.loop \in {"abstract", "main", "scan", "early", "any"}
    /\ f.i <= Len(LoopTexts(f, doc_json))
    /\ ~f.stopped

\* one iteration of the loop the frame is in (lines 392-436, 442-497,
\* 840-1021, 1182-1225, 1229-1265)
LoopBody(f, text) ==
    LET c == Strip(TextOf(text))
        g == IF f.loop = "abstract" THEN AbstractStep(f, text)
             ELSE IF f.loop = "main" THEN MainStep(f, text)
             ELSE IF f.loop = "scan" THEN EnhancedStep(f, text)
             ELSE IF f.loop = "early"
                  THEN IF EarlyPageAccepts(text)
                       THEN [f EXCEPT !.all_texts = Append(@, c)] ELSE f
             ELSE IF AnyPageAccepts(text)
                  THEN [f EXCEPT !.all_texts = Append(@, c)] ELSE f
    IN  [g EXCEPT !.i = f.i + 1]

\* what follows a loop: the main-text loop after the abstract loop (line
\* 439), the unfiltered pass of line 1228 after an empty early pass
AfterLoop(f, doc_json) ==
    IF f.loop = "abstract"
    THEN [f EXCEPT !.loop = "main", !.i = 1, !.stopped = FALSE]
    ELSE IF f.loop = "early" /\ f.all_texts = <<>> /\ TextsOf(doc_json) # <<>>
         THEN [f EXCEPT !.loop = "any", !.i = 1]
    ELSE [f EXCEPT !.loop = "finished"]

\* lines 500-539 on the locals of extract_paper_content
SectionsFrom(f, texts) ==
    LET abstract == Join(f.abstract_section)
    IN  [title     |-> f.title,
         abstract  |-> abstract,
         main_text |-> IF abstract = <<>> /\ f.main_text = <<>>
                       THEN Join(LenientPass(texts, 1))
                       ELSE Join(f.main_text)]

\* the value a function returns from its locals (lines 565-639, 1023-1156,
\* 1267-1280)
ReturnValue(fn, f, doc_json) ==
    LET texts == TextsOf(doc_json)
    IN  IF fn = "extract_from_docling_document"
        THEN IF IsDoclingDocument(doc_json)
             THEN WithBackfill(SectionsFrom(f, texts), texts)
             ELSE [error |-> NotDoclingError]
        ELSE IF fn = "extract_enhanced_paper_content"
        THEN FinishEnhanced(RebuildIfSparse(f.title, texts,
                 DeduplicateTitle(f.title, AssembleFragments(f.title, f))))
        ELSE CleanFallbackText(Join(f.all_texts))

InitConcurrent ==
    /\ pc = <<"start", "start">>
    /\ \E d \in ConcurrentDocuments : data = <<d, OtherDocument>>
    /\ \E fns \in ExtractionPairs : calls = <<[fn |-> fns[1]], [fn |-> fns[2]]>>
    /\ frames = <<NewFrame("none", <<>>), NewFrame("none", <<>>)>>
    /\ result = <<<<>>, <<>>>>
    /\ texts_read = <<>>
    /\ primary_text = <<>>
    /\ combined_text = <<>>
    /\ extracted_content = <<>>
    /\ content = <<>>
    /\ is_author = FALSE
    /\ is_unwanted = FALSE

\* the call begins: its locals are created and its title loop runs
Enter(p) ==
    /\ pc[p] = "start"
    /\ pc' = [pc EXCEPT ![p] = "running"]
    /\ frames' = [frames EXCEPT ![FrameOf(p)] =
                      EntryFrame(calls[p].fn, TextsOf(data[p]))]
    /\ UNCHANGED <<data, texts_read, result, primary_text, combined_text, calls,
                   extracted_content, content, is_author, is_unwanted>>

\* one iteration of the loop the call is in
LoopStep(p) ==
    /\ pc[p] = "running"
    /\ LET f == frames[FrameOf(p)]
       IN  /\ LoopGoesOn(f, data[p])
           /\ frames' = [frames EXCEPT ![FrameOf(p)] =
                             LoopBody(f, LoopTexts(f, data[p])[f.i])]
    /\ UNCHANGED <<pc, data, texts_read, result, primary_text, combined_text, calls,
                   extracted_content, content, is_author, is_unwanted>>

\* the loop the call is in ends, by exhaustion or by break
LeaveLoop(p) ==
    /\ pc[p] = "running"
    /\ LET f == frames[FrameOf(p)]
       IN  /\ f.loop \notin {"none", "finished"}
           /\ ~LoopGoesOn(f, data[p])
           /\ frames' = [frames EXCEPT ![FrameOf(p)] = AfterLoop(f, data[p])]
    /\ UNCHANGED <<pc, data, texts_read, result, primary_text, combined_text, calls,
                   extracted_content, content, is_author, is_unwanted>>

\* the call returns the value built from its locals
Return(p) ==
    /\ pc[p] = "running"
    /\ frames[FrameOf(p)].loop = "finished"
    /\ pc' = [pc EXCEPT ![p] = "done"]
    /\ result' = [result EXCEPT ![p] = ReturnValue(calls[p].fn, frames[FrameOf(p)], data[p])]
    /\ UNCHANGED <<frames, data, texts_read, primary_text, combined_text, calls,
                   extracted_content, content, is_author, is_unwanted>>

NextConcurrent ==
    \E p \in Contexts : Enter(p) \/ LoopStep(p) \/ LeaveLoop(p) \/ Return(p)

SpecConcurrent == InitConcurrent /\ [][NextConcurrent]_vars

\* the value the function of a call returns when the call runs alone
Alone(fn, doc_json) ==
    IF fn = "extract_from_docling_document"
    THEN extract_from_docling_document(doc_json)
    ELSE IF fn = "extract_enhanced_paper_content"
         THEN extract_enhanced_paper_content(doc_json)
    ELSE extract_full_page_text(doc_json)

\* C14: in every interleaving of two extraction calls, on the same document
\* or on different ones, no step changes the document either call was given,
\* and a call that returns returns exactly the value its function returns on
\* its document when it runs alone
IsolatedCalls ==
    [][/\ data' = data
       /\ \A p \in Contexts :
              pc[p] # "done" /\ pc'[p] = "done"
                  => result'[p] = Alone(calls[p].fn, data[p])]_vars

\* two calls of different functions on different documents have both
\* returned a value
IsolatedCallsWitness ==
    /\ pc = <<"done", "done">>
    /\ data[1] # data[2]
    /\ Len(TextsOf(data[1])) >= 2
    /\ calls[1].fn # calls[2].fn
    /\ result[1] # <<>>
    /\ result[2] # <<>>

====
